---------------------------- MODULE Spec2Model ----------------------------
(***************************************************************************)
(* Model of src/cluster_compat_check.py: the host orchestrator             *)
(* (run_host_mode and the mesh tester it drives), the worker agent         *)
(* (run_worker_mode, _worker_command_loop), the listener manager and the   *)
(* control channels between host and workers.                              *)
(*                                                                         *)
(* The host is one sequential program; pc is its position.  Each host      *)
(* action is the code between two blocking points (accept, recv, input).   *)
(* Each connection c is one peer process dialing the host: a worker that   *)
(* follows run_worker_mode, or a peer that does not follow the protocol.   *)
(***************************************************************************)
EXTENDS Integers, Sequences, FiniteSets, TLC

\* Largest cluster size the operator may request in the model.
MaxClusterSize == 3
\* Number of peers that may dial the host during one session.
NumConns == 3
\* Number of adverse events explored in one session: a peer lost, a peer
\* that does not follow the protocol, a worker started beyond the cluster
\* size, a reply that misses its timeout, a failed test or tool, the
\* operator's input ending.
MaxFaults == 2

\* Number of ports, and of listener processes ever started, of a manager
\* that is driven on its own.
NumPorts == 2
MaxProcs == 3
\* Number of command lines an arbitrary host may have written to a worker
\* that the worker has not taken yet.
MaxPipelined == 2

DEFAULT_IPERF_PORT_BASE == 5301

Conns == 1..NumConns

VARIABLES
    cluster_size,   \* run_host_mode parameter
    pc,             \* host position in run_host_mode
    listening,      \* the listener socket is bound and open
    workers,        \* list[WorkerConnection]: <<[rank, conn]>>
    idx,            \* position of the current for-loop over workers / nodes
    started,        \* the operator gave the go-ahead (left the input loop)
    ret,            \* how run_host_mode ended: none, rc0, rc1, rc2, raised
    local_result,   \* the host's own CollectiveTestResult, or NoResult
    worker_results, \* list of rows collected so far
    table,          \* rows rendered in the collective table, or NoTable
    all_ok,         \* _run_mesh_iperf_tests: every node has the tool so far
    mesh,           \* _run_mesh_iperf_tests loop locals, see MeshInit
    servers,        \* the host's IperfServerManager._servers (set of ports)
    chan,           \* host side of each connection: none/backlog/open/closed
    toHost,         \* lines in flight peer -> host, as a queue of messages
    toWorker,       \* lines in flight host -> peer
    wpc,            \* peer process position, per connection
    wservers,       \* each worker's IperfServerManager._servers
    registered_log, \* per connection: the `registered` replies delivered to it
    start_log,      \* the start_nccl commands sent so far, in order, with their connection
    shut,           \* per worker, in teardown order: what teardown did for it
    mesh_entered,   \* _run_mesh_iperf_tests was called
    typed,          \* the operator's last input: none, other, or go
    faults,         \* adverse events so far (bounded by MaxFaults)
    timed_out,      \* connections on whose host-side reader a recv has timed out
    mgr,            \* an IperfServerManager driven on its own, see ManagerSpec
    group,          \* one collective test: every rank's _run_nccl_distributed
    sock            \* one end of a control connection: a JsonChannel and its socket

hostVars == <<pc, listening, workers, idx, started, ret>>
collVars == <<local_result, worker_results, table>>
meshVars == <<all_ok, mesh, servers, mesh_entered>>
netVars == <<chan, toHost, toWorker>>
peerVars == <<wpc, wservers>>
histVars == <<registered_log, start_log, shut, typed>>

\* The state of the components that are also driven on their own.
unitVars == <<mgr, group, sock>>

\* The state of a host session and its peers.
sessionVars == <<cluster_size, hostVars, collVars, meshVars, netVars, peerVars,
                 histVars, faults, timed_out>>

vars == <<sessionVars, unitVars>>

\* The outcomes of an operation that may fail: failure is explored while
\* the session's budget of adverse events lasts.
CanFault == faults < MaxFaults
Outcomes == IF CanFault THEN {TRUE, FALSE} ELSE {TRUE}
Cost(ok) == IF ok THEN 0 ELSE 1

NoResult == [none |-> TRUE]
NoTable == <<[none |-> TRUE]>>

-----------------------------------------------------------------------------
(* Messages.  A message is a record with a `type` field and the payload    *)
(* fields the handlers read.  rank_int / gpu_int say whether int() accepts *)
(* the value of the rank / gpu_count field (a JSON null or a non-numeric   *)
(* string makes int() raise).                                              *)

RegisterMsg(gpu_int) == [type |-> "register", gpu_int |-> gpu_int]
RegisteredMsg(rank, ws) == [type |-> "registered", rank |-> rank, world_size |-> ws]
FirstMustBeRegister == [type |-> "error", error |-> "first message must be register"]
StartNcclMsg(rank, ws) == [type |-> "start_nccl", rank |-> rank, world_size |-> ws]
NcclResultMsg(rank, rank_int, ok) ==
    [type |-> "nccl_result", rank |-> rank, rank_int |-> rank_int, ok |-> ok]
ShutdownMsg == [type |-> "shutdown"]
ShutdownAck == [type |-> "shutdown_ack", ok |-> TRUE]
UnknownCommand == [type |-> "error", ok |-> FALSE]
HelloMsg == [type |-> "hello"]

\* dict.get("ok") of a received message, through bool().
MsgOk(m) == IF "ok" \in DOMAIN m THEN m.ok ELSE FALSE

\* A CollectiveTestResult row as the host keeps it.
Row(rank, rank_int, ok, error) ==
    [rank |-> rank, rank_int |-> rank_int, ok |-> ok, error |-> error]

-----------------------------------------------------------------------------
(* JsonChannel *)

\* The peer end of connection c is open: the peer process is alive and has
\* not closed its socket.
PeerOpen(c) == wpc[c] \in {"wait_registered", "loop", "rogue", "rogue_writing"}

\* JsonChannel.send on the host side of an open channel: the outcomes a
\* write may have.  TRUE is "returned", FALSE is "raised".  A write to a
\* peer that is gone may raise or may be buffered and lost; a write on an
\* intact connection returns.
SendOutcomes(c) == IF PeerOpen(c) THEN {TRUE} ELSE {TRUE, FALSE}

\* The same for a channel the host may already have closed: a write on a
\* closed channel raises.
HostSendOutcomes(c) == IF chan[c] # "open" THEN {FALSE} ELSE SendOutcomes(c)

\* The queue host -> c after a send with outcome ok: the message is
\* delivered only on an intact connection.
AfterHostSend(c, m, ok) ==
    IF ok /\ PeerOpen(c) THEN Append(toWorker[c], m) ELSE toWorker[c]

\* JsonChannel.recv on the host side returns the next line when one is
\* queued.  With no line queued it raises: the error of reading a closed
\* channel, EOFError when the peer is gone, TimeoutError otherwise.  A
\* timeout while the peer still has a command to answer (a slow peer) is
\* an adverse event; a peer with nothing to answer will never send.  Once a recv on the channel has timed out,
\* every later recv on it raises at once, whatever has arrived since (see
\* ReadlineOutcomes).
HostReaderTimedOut(c) == c \in timed_out
HostRecvTimesOut(c) ==
    chan[c] = "open" /\ PeerOpen(c) /\ toWorker[c] # <<>> /\ ~HostReaderTimedOut(c)

\* settimeout (line 301) bounds each read of the socket, not the call of
\* readline (line 302): while the bytes of an unfinished line keep arriving
\* every read returns in time and readline goes on reading, so recv
\* neither returns nor raises.
HostRecvBlocked(c) ==
    chan[c] = "open" /\ wpc[c] = "rogue_writing" /\ toHost[c] = <<>> /\ ~HostReaderTimedOut(c)

HostRecvRaises(c) ==
    \/ HostReaderTimedOut(c)
    \/ /\ toHost[c] = <<>>
       /\ ~HostRecvBlocked(c)
       /\ HostRecvTimesOut(c) => CanFault
HostRecvReturns(c) == chan[c] = "open" /\ toHost[c] # <<>> /\ ~HostReaderTimedOut(c)
RecvCost(c) == IF HostRecvTimesOut(c) THEN 1 ELSE 0

\* JsonChannel.close on the host side.
HostClose(c) ==
    /\ chan' = [chan EXCEPT ![c] = "closed"]
    /\ toHost' = [toHost EXCEPT ![c] = <<>>]

\* The host end of c is gone: closed by the host, or reset when the
\* listener closed with c still in the accept queue.
HostEndClosed(c) == chan[c] = "closed"

-----------------------------------------------------------------------------
(* IperfServerManager with its process handles.  servers is the dict       *)
(* _servers, from port to the handle Popen returned; a handle is the       *)
(* position of its process in procs, the listener processes started so     *)
(* far.  ret is the last call and what it returned.                        *)

\* __init__ (lines 347-349).
IperfServerManager == [servers |-> <<>>, procs |-> <<>>, ret |-> [op |-> "__init__"]]

\* No channel is being followed call by call.
NoSocket == [timeout |-> "none", lines |-> <<>>, peer_closed |-> FALSE,
             timeout_occurred |-> FALSE, closed |-> FALSE, ret |-> [op |-> "__init__"]]

\* No collective test is being followed rank by rank.
NoGroup == [world_size |-> 0, contributed |-> {}, member |-> <<>>]

-----------------------------------------------------------------------------
\* The locals of _run_mesh_iperf_tests and _run_iperf_direction.
MeshInit ==
    [i |-> 0, j |-> 1, dirn |-> 1, step |-> "start",
     port_cursor |-> DEFAULT_IPERF_PORT_BASE,
     client_res |-> NoResult, server_res |-> NoResult, a_to_b |-> NoResult,
     last_row |-> NoResult, pairs |-> <<>>, probes |-> <<>>,
     availability_rows |-> <<>>]

Init ==
    /\ cluster_size \in 1..MaxClusterSize
    /\ pc = "init"
    /\ listening = FALSE
    /\ workers = <<>>
    /\ idx = 0
    /\ started = FALSE
    /\ ret = "none"
    /\ local_result = NoResult
    /\ worker_results = <<>>
    /\ table = NoTable
    /\ all_ok = TRUE
    /\ mesh = MeshInit
    /\ servers = {}
    /\ mesh_entered = FALSE
    /\ chan = [c \in Conns |-> "none"]
    /\ toHost = [c \in Conns |-> <<>>]
    /\ toWorker = [c \in Conns |-> <<>>]
    /\ wpc = [c \in Conns |-> "idle"]
    /\ wservers = [c \in Conns |-> {}]
    /\ registered_log = [c \in Conns |-> <<>>]
    /\ start_log = <<>>
    /\ shut = <<>>
    /\ typed = "none"
    /\ faults = 0
    /\ timed_out = {}
    /\ mgr = IperfServerManager
    /\ group = NoGroup
    /\ sock = NoSocket

-----------------------------------------------------------------------------
(* IperfServerManager: _servers as a set of tracked ports *)

\* Throughput values a client run may report: None, or a number (in
\* units of 10^9 bits per second).  NominalBps is what a healthy link
\* reports; a report of 0 is explored as an adverse event.
NoBps == [num |-> FALSE, v |-> 0]
NumBps(v) == [num |-> TRUE, v |-> v]
NominalBps == NumBps(2)

\* start(port); popen_ok: subprocess.Popen returned a process.
MgrStart(S, port, popen_ok) ==
    IF port \in S THEN [ok |-> FALSE, servers |-> S]
    ELSE IF ~popen_ok THEN [ok |-> FALSE, servers |-> S]
    ELSE [ok |-> TRUE, servers |-> S \cup {port}]

\* A wait that leaves the listener in the map.
MutMgrWait(S, port, exit_ok) ==
    IF port \notin S THEN [ok |-> FALSE, stdout |-> NoBps, servers |-> S]
    ELSE [ok |-> exit_ok, stdout |-> IF exit_ok THEN NominalBps ELSE NoBps,
          servers |-> S]

\* wait(port, timeout); exit_ok: the listener ended in time with code 0.
\* stdout is the listener's report, kept as the throughput it states.
MgrWait(S, port, exit_ok) ==
    IF port \notin S THEN [ok |-> FALSE, stdout |-> NoBps, servers |-> S]
    ELSE [ok |-> exit_ok, stdout |-> IF exit_ok THEN NominalBps ELSE NoBps,
          servers |-> S \ {port}]

\* wait(port, timeout) of a tracked listener that ends with code 0 and a
\* report that states no throughput.
MgrWaitEmptyReport(S, port) ==
    [ok |-> TRUE, stdout |-> NoBps, servers |-> S \ {port}]

\* A cleanup that leaves the tracked listeners as they are.
MutMgrShutdownAll(S) == S

\* shutdown_all(): every tracked listener is killed and popped.
MgrShutdownAll(S) == S \ S

-----------------------------------------------------------------------------
(* Peers *)

\* Connections are numbered in the order in which they reach the listener.
NextToConnect(c) == \A d \in Conns : d < c => wpc[d] # "idle"

\* The host already has, or has waiting in its accept queue, as many peers
\* as it needs: one more worker is a worker started by mistake, which is
\* explored as an adverse event.
Surplus ==
    Len(workers) + Cardinality({d \in Conns : chan[d] = "backlog"}) >= cluster_size - 1

\* run_worker_mode up to the register send: connect, then send register.
WorkerConnect(c) ==
    /\ listening
    /\ wpc[c] = "idle"
    /\ NextToConnect(c)
    /\ Surplus => CanFault
    /\ faults' = faults + (IF Surplus THEN 1 ELSE 0)
    /\ wpc' = [wpc EXCEPT ![c] = "wait_registered"]
    /\ chan' = [chan EXCEPT ![c] = "backlog"]
    /\ toHost' = [toHost EXCEPT ![c] = <<RegisterMsg(TRUE)>>]
    /\ UNCHANGED <<unitVars, timed_out, cluster_size, hostVars, collVars, meshVars, toWorker,
                   wservers, histVars>>

\* First lines a peer that does not follow run_worker_mode may send after
\* connecting: nothing, a message of another type, a register whose
\* gpu_count int() rejects, or a well-formed register.
RogueFirst == {<<>>, <<HelloMsg>>, <<RegisterMsg(FALSE)>>, <<RegisterMsg(TRUE)>>}

RogueConnect(c) ==
    /\ listening
    /\ pc = "accept"
    /\ CanFault
    /\ wpc[c] = "idle"
    /\ NextToConnect(c)
    /\ \E first \in RogueFirst : toHost' = [toHost EXCEPT ![c] = first]
    /\ wpc' = [wpc EXCEPT ![c] = "rogue"]
    /\ chan' = [chan EXCEPT ![c] = "backlog"]
    /\ faults' = faults + 1
    /\ UNCHANGED <<unitVars, timed_out, cluster_size, hostVars, collVars, meshVars, toWorker,
                   wservers, histVars>>

\* The peer process ends or its connection is lost.  What it already sent
\* stays readable by the host; what was sent to it is never read; the
\* finally of _worker_command_loop stops its listeners.
PeerGone(c) ==
    /\ wpc' = [wpc EXCEPT ![c] = IF @ \in {"rogue", "rogue_writing"} THEN "rogue_gone" ELSE "exited"]
    /\ toWorker' = [toWorker EXCEPT ![c] = <<>>]
    /\ wservers' = [wservers EXCEPT ![c] = MgrShutdownAll(@)]

\* A peer is lost while the host still holds its connection.
Drop(c) ==
    /\ PeerOpen(c)
    /\ ~HostEndClosed(c)
    /\ pc \notin {"done", "exit"}
    /\ CanFault
    /\ PeerGone(c)
    /\ faults' = faults + 1
    /\ UNCHANGED <<unitVars, timed_out, cluster_size, hostVars, collVars, meshVars, chan, toHost,
                   histVars>>

\* The host will never answer the register of c: its end is gone, or the
\* accept loop is over with c still in the accept queue.
NeverAccepted(c) == HostEndClosed(c) \/ (chan[c] = "backlog" /\ pc # "accept")

\* run_worker_mode after the register send: recv(timeout=60); anything but
\* `registered` (a timeout and EOF included) ends the worker.
WorkerRecvRegistered(c) ==
    /\ wpc[c] = "wait_registered"
    /\ \/ /\ toWorker[c] # <<>>
          /\ Head(toWorker[c]).type = "registered"
          /\ wpc' = [wpc EXCEPT ![c] = "loop"]
          /\ toWorker' = [toWorker EXCEPT ![c] = Tail(@)]
          /\ UNCHANGED <<wservers, faults>>
       \/ /\ toWorker[c] # <<>>
          /\ Head(toWorker[c]).type # "registered"
          /\ PeerGone(c)
          /\ UNCHANGED faults
       \/ /\ toWorker[c] = <<>>
          /\ NeverAccepted(c) \/ CanFault
          /\ PeerGone(c)
          /\ faults' = faults + (IF NeverAccepted(c) THEN 0 ELSE 1)
    /\ UNCHANGED <<unitVars, timed_out, cluster_size, hostVars, collVars, meshVars, chan, toHost,
                   histVars>>

\* A shutdown branch that acknowledges and stays in the loop.
MutShutdownReturns == FALSE

\* Line 482: return 0 after the shutdown_ack was sent.
ShutdownReturns == TRUE

\* One iteration of _worker_command_loop for command msg: the reply, the
\* listener map afterwards, and whether the loop returns.  ok is FALSE
\* when the test or the tool fails in this iteration.
WorkerReply(c, msg, ok) ==
    LET S == wservers[c]
        R(reply, srv, exit) == [reply |-> reply, srv |-> srv, exit |-> exit]
    IN  CASE msg.type = "start_nccl" ->
               R(NcclResultMsg(msg.rank, TRUE, ok), S, FALSE)
          [] msg.type = "check_iperf3" ->
               R([type |-> "check_iperf3_result", ok |-> ok], S, FALSE)
          [] msg.type = "iperf_server_start" ->
               R([type |-> "iperf_server_start_result", ok |-> MgrStart(S, msg.port, ok).ok],
                 MgrStart(S, msg.port, ok).servers, FALSE)
          [] msg.type = "iperf_server_wait" ->
               R([type |-> "iperf_server_wait_result", ok |-> MgrWait(S, msg.port, ok).ok,
                  stdout |-> MgrWait(S, msg.port, ok).stdout],
                 MgrWait(S, msg.port, ok).servers, FALSE)
          [] msg.type = "iperf_client_run" ->
               R([type |-> "iperf_client_result", ok |-> ok,
                  bps |-> IF ok THEN NominalBps ELSE NoBps], S, FALSE)
          [] msg.type = "shutdown" ->
               R(ShutdownAck, MgrShutdownAll(S), ShutdownReturns)
          [] OTHER ->
               R(UnknownCommand, S, FALSE)

\* The payload fields each handler subscripts (msg["port"], msg["rank"],
\* ...) before it does anything else; of a start_nccl the model carries
\* rank and world_size (master_addr and master_port are read the same way).
RequiredFields(type) ==
    CASE type = "start_nccl" -> {"rank", "world_size"}
      [] type \in {"iperf_server_start", "iperf_server_wait", "iperf_client_run"} -> {"port"}
      [] OTHER -> {}

\* A subscript of a missing field raises KeyError; nothing in the loop
\* catches it.
HandlerRaises(msg) == ~(RequiredFields(msg.type) \subseteq DOMAIN msg)

\* A listener wait whose report states no throughput.
EmptyReportReply(c, msg) ==
    [reply |-> [type |-> "iperf_server_wait_result", ok |-> TRUE,
                stdout |-> MgrWaitEmptyReport(wservers[c], msg.port).stdout],
     srv |-> MgrWaitEmptyReport(wservers[c], msg.port).servers, exit |-> FALSE]

\* A client run that succeeds and reports 0 bits per second.
ZeroBpsReply(c) ==
    [reply |-> [type |-> "iperf_client_result", ok |-> TRUE, bps |-> NumBps(0)],
     srv |-> wservers[c], exit |-> FALSE]

\* The commands whose handler cannot fail.
Infallible(msg) == msg.type \notin {"start_nccl", "check_iperf3", "iperf_server_start",
                                    "iperf_server_wait", "iperf_client_run"}

\* JsonChannel.send on the peer side: a write after the host end is gone
\* may raise or be lost.
WorkerSendOutcomes(c) == IF HostEndClosed(c) THEN {TRUE, FALSE} ELSE {TRUE}

AfterWorkerSend(c, m) ==
    IF HostEndClosed(c) THEN toHost[c] ELSE Append(toHost[c], m)

\* The loop goes on after reply r was sent, or ends.
WorkerAfterReply(c, r, sent) ==
    /\ toHost' = [toHost EXCEPT ![c] = AfterWorkerSend(c, r.reply)]
    /\ IF r.exit \/ ~sent
       THEN PeerGone(c)
       ELSE /\ toWorker' = [toWorker EXCEPT ![c] = Tail(@)]
            /\ wservers' = [wservers EXCEPT ![c] = r.srv]
            /\ UNCHANGED wpc

\* _worker_command_loop: recv(timeout=None), dispatch, send the reply.  An
\* exception in a handler leaves the loop through its finally clause.
WorkerCommand(c) ==
    /\ wpc[c] = "loop"
    /\ \/ /\ toWorker[c] = <<>>
          /\ HostEndClosed(c)
          /\ PeerGone(c)
          /\ UNCHANGED <<toHost, faults>>
       \/ /\ toWorker[c] # <<>>
          /\ HandlerRaises(Head(toWorker[c]))
          /\ PeerGone(c)
          /\ UNCHANGED <<toHost, faults>>
       \/ /\ toWorker[c] # <<>>
          /\ ~HandlerRaises(Head(toWorker[c]))
          /\ LET msg == Head(toWorker[c]) IN
             \E sent \in WorkerSendOutcomes(c) :
                \/ \E ok \in (IF Infallible(msg) THEN {TRUE} ELSE Outcomes) :
                      /\ WorkerAfterReply(c, WorkerReply(c, msg, ok), sent)
                      /\ faults' = faults + Cost(ok)
                \/ /\ msg.type = "iperf_client_run"
                   /\ CanFault
                   /\ WorkerAfterReply(c, ZeroBpsReply(c), sent)
                   /\ faults' = faults + 1
                \/ /\ msg.type = "iperf_server_wait"
                   /\ msg.port \in wservers[c]
                   /\ CanFault
                   /\ WorkerAfterReply(c, EmptyReportReply(c, msg), sent)
                   /\ faults' = faults + 1
    /\ UNCHANGED <<unitVars, timed_out, cluster_size, hostVars, collVars, meshVars, chan, histVars>>

\* What a peer that does not follow the protocol may answer to a command:
\* a result that claims another rank, one whose rank is no integer, or a
\* message of another type.
RogueReplies(msg) ==
    IF msg.type = "start_nccl"
    THEN {NcclResultMsg(0, TRUE, TRUE), NcclResultMsg(0, FALSE, TRUE), HelloMsg}
    ELSE {HelloMsg}

RogueReceive(c) ==
    /\ wpc[c] = "rogue"
    /\ ~HostEndClosed(c)
    /\ toWorker[c] # <<>>
    /\ toWorker' = [toWorker EXCEPT ![c] = Tail(@)]
    /\ IF Head(toWorker[c]).type = "registered"
       THEN UNCHANGED toHost
       ELSE \E m \in RogueReplies(Head(toWorker[c])) :
               toHost' = [toHost EXCEPT ![c] = AfterWorkerSend(c, m)]
    /\ UNCHANGED <<unitVars, timed_out, cluster_size, hostVars, collVars, meshVars, chan, wpc,
                   wservers, histVars, faults>>

\* A registered peer that does not follow the protocol writes a line no
\* command asked for, such as a second result for one start_nccl.
RogueSendExtra(c) ==
    /\ wpc[c] = "rogue"
    /\ chan[c] = "open"
    /\ CanFault
    /\ Len(toHost[c]) < MaxPipelined
    /\ toHost' = [toHost EXCEPT ![c] = Append(@, NcclResultMsg(0, TRUE, TRUE))]
    /\ faults' = faults + 1
    /\ UNCHANGED <<unitVars, timed_out, cluster_size, hostVars, collVars, meshVars, chan,
                   toWorker, peerVars, histVars>>

-----------------------------------------------------------------------------
(* run_host_mode: setup and registration *)

\* An exception leaves the try block of run_host_mode: the finally clause
\* (teardown) runs next and the exception goes to the caller.
Raise == pc' = "teardown" /\ idx' = 1 /\ ret' = "raised"

\* A setup that binds the listener whatever size was requested.
MutSetupFails(bind_ok) == ~bind_ok

\* Lines 687-698: the session is refused when fewer than 2 nodes are
\* requested, or when creating, binding or listening on the control
\* socket raises.
SetupFails(bind_ok) == cluster_size < 2 \/ ~bind_ok

\* Lines 687-698: the size check and the listener bind; return 1 on failure.
HostStart ==
    /\ pc = "init"
    /\ \E bind_ok \in BOOLEAN :
          IF SetupFails(bind_ok)
          THEN /\ pc' = "exit" /\ ret' = "rc1"
               /\ UNCHANGED listening
          ELSE /\ listening' = TRUE
               /\ pc' = "accept"
               /\ UNCHANGED ret
    /\ UNCHANGED <<unitVars, timed_out, cluster_size, workers, idx, started, collVars, meshVars,
                   netVars, peerVars, histVars, faults>>

\* A numbering that starts at 0 instead of 1.
MutNextRank == Len(workers)

\* Line 717: the rank given to the next registration.
NextRank == Len(workers) + 1

\* Line 707: the accept loop goes on while workers are missing.
AfterAccept(ws) == IF Len(ws) < cluster_size - 1 THEN "accept" ELSE "ready"

\* A rejection that registers the connection all the same.
MutWorkersAfterReject(c) == Append(workers, [rank |-> NextRank, conn |-> c])

\* Lines 712-715: the worker list after a first message of another type.
WorkersAfterReject(c) == workers

\* A reply that names the rank before the one assigned.
MutRegisteredReply(rank) == RegisteredMsg(rank - 1, cluster_size)

\* Line 730: the reply to an accepted register.
RegisteredReply(rank) == RegisteredMsg(rank, cluster_size)

\* Lines 708-738: accept one connection and handle its first message.
HostAccept(c) ==
    /\ pc = "accept"
    /\ chan[c] = "backlog"
    /\ \A d \in Conns : d < c => chan[d] # "backlog"
    /\ IF toHost[c] = <<>>
       THEN \* recv raised: except clause, channel.close()
            /\ HostClose(c)
            /\ UNCHANGED <<workers, toWorker, registered_log>>
       ELSE LET register == Head(toHost[c]) IN
            IF register.type # "register"
            THEN \E ok \in SendOutcomes(c) :
                    /\ toWorker' = [toWorker EXCEPT ![c] = AfterHostSend(c, FirstMustBeRegister, ok)]
                    /\ HostClose(c)
                    /\ workers' = WorkersAfterReject(c)
                    /\ UNCHANGED registered_log
            ELSE IF ~register.gpu_int
            THEN \* int(gpu_count) raised before the append
                 /\ HostClose(c)
                 /\ UNCHANGED <<workers, toWorker, registered_log>>
            ELSE LET rank == NextRank
                     reply == RegisteredReply(rank)
                 IN  /\ workers' = Append(workers, [rank |-> rank, conn |-> c])
                     /\ \E ok \in SendOutcomes(c) :
                           /\ toWorker' = [toWorker EXCEPT ![c] = AfterHostSend(c, reply, ok)]
                           /\ registered_log' =
                                 [registered_log EXCEPT ![c] =
                                     IF ok /\ PeerOpen(c) THEN Append(@, reply) ELSE @]
                           /\ IF ok
                              THEN /\ chan' = [chan EXCEPT ![c] = "open"]
                                   /\ toHost' = [toHost EXCEPT ![c] = Tail(@)]
                              ELSE HostClose(c)
    /\ pc' = AfterAccept(workers')
    /\ UNCHANGED <<unitVars, timed_out, cluster_size, listening, idx, started, ret, collVars,
                   meshVars, peerVars, start_log, shut, typed, faults>>

-----------------------------------------------------------------------------
(* run_host_mode: the operator prompt *)

\* What the operator may type, and what .strip().lower() makes of it.
RawInputs == {"start", " START ", "s", "", "go", "no"}
StripLower(raw) == IF raw = " START " THEN "start" ELSE raw

\* A prompt that also takes "no" for a go-ahead.
MutIsGoAhead(command) == command \in {"start", "s", "", "no"}

\* Line 744: the accepted go-ahead values.
IsGoAhead(command) == command \in {"start", "s", ""}

\* What kind of line the operator typed: one the prompt asks for (start,
\* s, or just Enter, in any case and with blanks around it) or another.
TypedKind(raw) == IF raw \in {"start", " START ", "s", ""} THEN "go" ELSE "other"

\* Lines 742-746: one round of the input loop.
HostInput(raw) ==
    /\ pc = "ready"
    /\ typed' = TypedKind(raw)
    /\ IF IsGoAhead(StripLower(raw))
       THEN /\ started' = TRUE
            /\ pc' = "broadcast"
            /\ idx' = 1
       ELSE UNCHANGED <<started, pc, idx>>
    /\ UNCHANGED <<unitVars, timed_out, cluster_size, listening, workers, ret, collVars, meshVars,
                   netVars, peerVars, registered_log, start_log, shut, faults>>

\* input() raises EOFError when the operator's input stream has ended.
HostInputEOF ==
    /\ pc = "ready"
    /\ CanFault
    /\ faults' = faults + 1
    /\ Raise
    /\ UNCHANGED <<unitVars, timed_out, cluster_size, listening, workers, started, collVars,
                   meshVars, netVars, peerVars, histVars>>

-----------------------------------------------------------------------------
(* run_host_mode: the collective phase *)

\* A command that counts the workers instead of the nodes.
MutStartCommand(worker) == StartNcclMsg(worker.rank, Len(workers))

\* Lines 750-757: the start_nccl command built for one worker.
StartCommand(worker) == StartNcclMsg(worker.rank, cluster_size)

\* A loop that is left after its first iteration.
MutAfterSendStart(i) == "local"

\* Lines 748 and 760: the loop goes on to the next worker; after the last
\* one the host runs its own test.
AfterSendStart(i) == IF i = Len(workers) THEN "local" ELSE "broadcast"

\* Lines 748-758: one iteration of the start_nccl loop.  The send is not
\* guarded: if it raises, the exception leaves the try block.
HostSendStart ==
    /\ pc = "broadcast"
    /\ LET worker == workers[idx]
           c == worker.conn
           command == StartCommand(worker)
       IN  \E ok \in HostSendOutcomes(c) :
             /\ toWorker' = [toWorker EXCEPT ![c] = AfterHostSend(c, command, ok)]
             /\ IF ~ok
                THEN /\ Raise
                     /\ UNCHANGED start_log
                ELSE /\ idx' = idx + 1
                     /\ pc' = AfterSendStart(idx)
                     /\ start_log' = Append(start_log, [conn |-> c, command |-> command])
                     /\ UNCHANGED ret
    /\ UNCHANGED <<unitVars, timed_out, cluster_size, listening, workers, started, collVars,
                   meshVars, chan, toHost, peerVars, registered_log, shut, typed, faults>>

\* Lines 760-766: the host's own _run_nccl_distributed(rank=0, ...).  The
\* runner catches every failure and returns a result.
HostLocalNccl ==
    /\ pc = "local"
    /\ \E ok \in Outcomes :
          /\ local_result' = Row(0, TRUE, ok, IF ok THEN "" ELSE "failed")
          /\ faults' = faults + Cost(ok)
    /\ pc' = "collect"
    /\ idx' = 1
    /\ UNCHANGED <<unitVars, timed_out, cluster_size, listening, workers, started, ret,
                   worker_results, table, meshVars, netVars, peerVars, histVars>>

\* Lines 772-782 and 784-793: the synthetic failure result.
Synthetic(worker, error) == Row(worker.rank, TRUE, FALSE, error)

\* Lines 771-782: the row kept for a reply that was received.
CollectedRow(worker, response) ==
    IF response.type # "nccl_result"
    THEN Synthetic(worker, "unexpected response")
    ELSE Row(response.rank, response.rank_int, response.ok,
             IF response.ok THEN "" ELSE "failed")

\* Lines 769-794: one iteration of the collection loop.
HostCollect ==
    /\ pc = "collect"
    /\ LET worker == workers[idx]
           c == worker.conn
       IN  \/ /\ HostRecvRaises(c)
              /\ worker_results' = Append(worker_results, Synthetic(worker, "recv failed"))
              /\ faults' = faults + RecvCost(c)
              /\ timed_out' = IF chan[c] = "open" /\ PeerOpen(c)
                               THEN timed_out \cup {c} ELSE timed_out
              /\ UNCHANGED toHost
           \/ /\ HostRecvReturns(c)
              /\ worker_results' = Append(worker_results, CollectedRow(worker, Head(toHost[c])))
              /\ toHost' = [toHost EXCEPT ![c] = Tail(@)]
              /\ UNCHANGED <<faults, timed_out>>
    /\ idx' = idx + 1
    /\ pc' = IF idx = Len(workers) THEN "render" ELSE "collect"
    /\ UNCHANGED <<unitVars, cluster_size, listening, workers, started, ret, local_result,
                   table, meshVars, chan, toWorker, peerVars, histVars>>

\* list.sort(key=lambda item: int(item.get("rank", 0))): a stable sort.
RECURSIVE InsertByRank(_, _)
InsertByRank(sorted, item) ==
    IF sorted = <<>> THEN <<item>>
    ELSE IF sorted[Len(sorted)].rank <= item.rank THEN Append(sorted, item)
    ELSE Append(InsertByRank(SubSeq(sorted, 1, Len(sorted) - 1), item), sorted[Len(sorted)])

RECURSIVE SortByRank(_)
SortByRank(items) ==
    IF items = <<>> THEN <<>>
    ELSE InsertByRank(SortByRank(SubSeq(items, 1, Len(items) - 1)), items[Len(items)])

\* The key function int(...) raises on a rank that is no integer.
SortRaises(items) == \E k \in 1..Len(items) : ~items[k].rank_int

\* Lines 796-812: build, sort and render the aggregate table, then lines
\* 814-826: build the node list and call _run_mesh_iperf_tests.
HostRender ==
    /\ pc = "render"
    /\ LET all_results == <<local_result>> \o worker_results
       IN  IF SortRaises(all_results)
           THEN /\ Raise
                /\ UNCHANGED <<table, mesh_entered>>
           ELSE /\ table' = SortByRank(all_results)
                /\ mesh_entered' = TRUE
                /\ pc' = "check"
                /\ idx' = 0
                /\ UNCHANGED ret
    /\ UNCHANGED <<unitVars, timed_out, cluster_size, listening, workers, started, local_result,
                   worker_results, all_ok, mesh, servers, netVars, peerVars,
                   histVars, faults>>

-----------------------------------------------------------------------------
(* _run_mesh_iperf_tests *)

\* Lines 814-825: the node list, host first, sorted by rank.
Nodes ==
    SortByRank(<<[rank |-> 0, is_host |-> TRUE, conn |-> 0]>> \o
               [k \in 1..Len(workers) |->
                   [rank |-> workers[k].rank, is_host |-> FALSE, conn |-> workers[k].conn]])

\* nodes[i] of the code (0-based).
Node(i) == Nodes[i + 1]

\* Line 828: the exit status of a session that reached the end.
ExitStatus(results) ==
    IF \A k \in 1..Len(results) : results[k].ok THEN "rc0" ELSE "rc2"

\* run_host_mode returns normally: the finally clause runs next.
Return == pc' = "teardown" /\ idx' = 1 /\ ret' = ExitStatus(table)

\* A preflight that goes on to the pair loops whatever the nodes reported.
MutSkipMesh(every_ok) == FALSE

\* Lines 626-628: the mesh tests are skipped unless every node has the tool.
SkipMesh(every_ok) == ~every_ok

\* Lines 621-630: after the availability probe of node idx returned ok.
AfterCheck(ok) ==
    /\ all_ok' = (all_ok /\ ok)
    /\ mesh' = [mesh EXCEPT !.availability_rows = Append(@, ok)]
    /\ IF idx + 1 < Len(Nodes)
       THEN /\ idx' = idx + 1
            /\ pc' = "check"
            /\ UNCHANGED ret
       ELSE IF SkipMesh(all_ok')
            THEN Return
            ELSE /\ pc' = "probe"
                 /\ UNCHANGED <<idx, ret>>

\* Lines 619-623 with _node_check_iperf: probe node idx, locally for the
\* host, by sending check_iperf3 for a worker.
HostCheck ==
    /\ pc = "check"
    /\ LET node == Node(idx) IN
       IF node.is_host
       THEN /\ \E ok \in Outcomes :
                  /\ AfterCheck(ok)
                  /\ faults' = faults + Cost(ok)
            /\ UNCHANGED toWorker
       ELSE \E sent \in HostSendOutcomes(node.conn) :
               /\ toWorker' = [toWorker EXCEPT
                     ![node.conn] = AfterHostSend(node.conn, [type |-> "check_iperf3"], sent)]
               /\ IF sent
                  THEN pc' = "check_wait" /\ UNCHANGED <<idx, ret>>
                  ELSE Raise
               /\ UNCHANGED <<all_ok, mesh, faults>>
    /\ UNCHANGED <<unitVars, timed_out, cluster_size, listening, workers, started, collVars,
                   servers, mesh_entered, chan, toHost, peerVars, histVars>>

\* _send_and_expect line 531 for check_iperf3: whatever line arrives next
\* on the connection is taken as the response.
HostCheckReply ==
    /\ pc = "check_wait"
    /\ LET c == Node(idx).conn IN
       \/ /\ HostRecvRaises(c)
          /\ Raise
          /\ faults' = faults + RecvCost(c)
          /\ UNCHANGED <<all_ok, mesh, toHost>>
       \/ /\ HostRecvReturns(c)
          /\ AfterCheck(MsgOk(Head(toHost[c])))
          /\ toHost' = [toHost EXCEPT ![c] = Tail(@)]
          /\ UNCHANGED faults
    /\ UNCHANGED <<unitVars, timed_out, cluster_size, listening, workers, started, collVars,
                   servers, mesh_entered, chan, toWorker, peerVars, histVars>>

\* The nodes and the port of the directed probe in progress (lines 640-641).
ProbeClient == IF mesh.dirn = 1 THEN Node(mesh.i) ELSE Node(mesh.j)
ProbeServer == IF mesh.dirn = 1 THEN Node(mesh.j) ELSE Node(mesh.i)
\* A port choice that gives both directions of a pair the same port.
MutProbePort == mesh.port_cursor

ProbePort == IF mesh.dirn = 1 THEN mesh.port_cursor ELSE mesh.port_cursor + 1

\* The node the current step of _run_iperf_direction addresses.
StepNode == IF mesh.step = "client" THEN ProbeClient ELSE ProbeServer

\* The command the current step sends to a worker (lines 546, 554-558, 571-580).
StepCommand ==
    CASE mesh.step = "start" -> [type |-> "iperf_server_start", port |-> ProbePort]
      [] mesh.step = "client" -> [type |-> "iperf_client_run", port |-> ProbePort]
      [] OTHER -> [type |-> "iperf_server_wait", port |-> ProbePort]

DirFail(error) == [ok |-> FALSE, bps |-> NoBps, error |-> error]

\* Lines 603-611: the result of a direction whose listener started.
DirResult(client_res, server_res) ==
    IF ~client_res.ok THEN DirFail("client failed")
    ELSE IF ~server_res.ok THEN DirFail("server failed")
    ELSE IF ~client_res.bps.num THEN DirFail("no throughput parsed")
    ELSE [ok |-> TRUE, bps |-> client_res.bps, error |-> ""]

\* Lines 644-645: a direction's Gbps column; None unless the direction is
\* ok and its bps is truthy.
Gbps(d) == IF d.ok /\ d.bps.num /\ d.bps.v # 0 THEN d.bps ELSE NoBps

\* Lines 647-648: the mean of the columns that hold a number.
AvgGbps(x, y) ==
    IF x.num /\ y.num THEN NumBps((x.v + y.v) \div 2)
    ELSE IF x.num THEN x
    ELSE IF y.num THEN y
    ELSE NoBps

\* Lines 644-667: the table row of a pair.
PairRow(a, b, a_to_b, b_to_a) ==
    [pair |-> <<a.rank, b.rank>>,
     a_to_b_gbps |-> Gbps(a_to_b), b_to_a_gbps |-> Gbps(b_to_a),
     avg_gbps |-> AvgGbps(Gbps(a_to_b), Gbps(b_to_a)),
     status |-> IF a_to_b.ok /\ b_to_a.ok THEN "PASS" ELSE "FAIL",
     detail |-> <<IF a_to_b.ok THEN "" ELSE a_to_b.error,
                  IF b_to_a.ok THEN "" ELSE b_to_a.error>>]

\* Lines 634-635: the pair after (i, j), or "done" after the last one.
MeshNextPair(m) ==
    IF m.j + 1 < Len(Nodes) THEN [m EXCEPT !.j = m.j + 1]
    ELSE IF m.i + 2 < Len(Nodes) THEN [m EXCEPT !.i = m.i + 1, !.j = m.i + 2]
    ELSE [m EXCEPT !.step = "done"]

\* A direction ended with result d: lines 640-667.
MeshDirDone(m, d) ==
    LET p == [m EXCEPT !.probes = Append(@, [client |-> ProbeClient.rank,
                                             server |-> ProbeServer.rank,
                                             port |-> ProbePort])]
    IN  IF m.dirn = 1
        THEN [p EXCEPT !.dirn = 2, !.step = "start", !.client_res = NoResult,
                       !.a_to_b = d, !.last_row = NoResult]
        ELSE MeshNextPair([p EXCEPT !.dirn = 1, !.step = "start",
                                    !.client_res = NoResult, !.a_to_b = NoResult,
                                    !.last_row = PairRow(Node(m.i), Node(m.j), m.a_to_b, d),
                                    !.pairs = Append(@, <<m.i, m.j>>),
                                    !.port_cursor = @ + 2])

\* A direction that runs its client although the listener did not start.
MutMeshStep(m, res) ==
    CASE m.step = "start" -> [m EXCEPT !.step = "client"]
      [] m.step = "client" -> [m EXCEPT !.step = "wait", !.client_res = res]
      [] OTHER -> MeshDirDone(m, DirResult(m.client_res, res))

\* _run_iperf_direction: the locals after the current step returned res.
MeshStep(m, res) ==
    CASE m.step = "start" ->
            IF res.ok THEN [m EXCEPT !.step = "client", !.server_res = NoResult]
            ELSE MeshDirDone([m EXCEPT !.server_res = NoResult],
                             DirFail("server start failed"))
      [] m.step = "client" -> [m EXCEPT !.step = "wait", !.client_res = res]
      [] OTHER -> MeshDirDone([m EXCEPT !.server_res = res], DirResult(m.client_res, res))

\* The step returned res and left the host's listener map as S: go on
\* with the next step, or leave the loops (finally: shutdown_all).
ProbeStepDone(res, S) ==
    /\ mesh' = MeshStep(mesh, res)
    /\ IF mesh'.step = "done"
       THEN /\ servers' = MgrShutdownAll(S)
            /\ Return
       ELSE /\ servers' = S
            /\ pc' = "probe"
            /\ UNCHANGED <<idx, ret>>

\* An exception leaves the pair loops: finally manager.shutdown_all(),
\* then the finally clause of run_host_mode.
RaiseInMesh ==
    /\ servers' = MgrShutdownAll(servers)
    /\ Raise
    /\ UNCHANGED mesh

\* What a host node's own step returns (manager.start, manager.wait,
\* _run_iperf_client), with the listener map it leaves; ok is FALSE when the
\* tool fails.
LocalStep(ok) ==
    CASE mesh.step = "start" ->
            [res |-> [ok |-> MgrStart(servers, ProbePort, ok).ok],
             srv |-> MgrStart(servers, ProbePort, ok).servers]
      [] mesh.step = "client" ->
            [res |-> [ok |-> ok, bps |-> IF ok THEN NominalBps ELSE NoBps], srv |-> servers]
      [] OTHER ->
            [res |-> [ok |-> MgrWait(servers, ProbePort, ok).ok,
                      stdout |-> MgrWait(servers, ProbePort, ok).stdout],
             srv |-> MgrWait(servers, ProbePort, ok).servers]

\* One step of _run_iperf_direction: run it locally on the host node, or
\* send the command to the worker (_send_and_expect line 530).
HostProbe ==
    /\ pc = "probe"
    /\ IF StepNode.is_host
       THEN /\ \/ \E ok \in Outcomes :
                     /\ ProbeStepDone(LocalStep(ok).res, LocalStep(ok).srv)
                     /\ faults' = faults + Cost(ok)
               \/ /\ mesh.step = "client"
                  /\ CanFault
                  /\ ProbeStepDone([ok |-> TRUE, bps |-> NumBps(0)], servers)
                  /\ faults' = faults + 1
               \/ /\ mesh.step = "wait"
                  /\ ProbePort \in servers
                  /\ CanFault
                  /\ ProbeStepDone([ok |-> TRUE,
                                    stdout |-> MgrWaitEmptyReport(servers, ProbePort).stdout],
                                   MgrWaitEmptyReport(servers, ProbePort).servers)
                  /\ faults' = faults + 1
            /\ UNCHANGED toWorker
       ELSE LET c == StepNode.conn IN
            \E sent \in HostSendOutcomes(c) :
               /\ toWorker' = [toWorker EXCEPT ![c] = AfterHostSend(c, StepCommand, sent)]
               /\ IF sent
                  THEN pc' = "probe_wait" /\ UNCHANGED <<idx, ret, mesh, servers>>
                  ELSE RaiseInMesh
               /\ UNCHANGED faults
    /\ UNCHANGED <<unitVars, timed_out, cluster_size, listening, workers, started, collVars, all_ok,
                   mesh_entered, chan, toHost, peerVars, histVars>>

\* What the _node_* wrappers make of a response (lines 547, 559-564, 581-585).
StepResponse(response) ==
    CASE mesh.step = "client" ->
            [ok |-> MsgOk(response),
             bps |-> IF "bps" \in DOMAIN response THEN response.bps ELSE NoBps]
      [] mesh.step = "wait" ->
            [ok |-> MsgOk(response),
             stdout |-> IF "stdout" \in DOMAIN response THEN response.stdout ELSE NoBps]
      [] OTHER -> [ok |-> MsgOk(response)]

\* _send_and_expect line 531 for a probe step.
HostProbeReply ==
    /\ pc = "probe_wait"
    /\ LET c == StepNode.conn IN
       \/ /\ HostRecvRaises(c)
          /\ RaiseInMesh
          /\ faults' = faults + RecvCost(c)
          /\ UNCHANGED toHost
       \/ /\ HostRecvReturns(c)
          /\ ProbeStepDone(StepResponse(Head(toHost[c])), servers)
          /\ toHost' = [toHost EXCEPT ![c] = Tail(@)]
          /\ UNCHANGED faults
    /\ UNCHANGED <<unitVars, timed_out, cluster_size, listening, workers, started, collVars, all_ok,
                   mesh_entered, chan, toWorker, peerVars, histVars>>

-----------------------------------------------------------------------------
(* A peer that writes a line without ending it *)

\* The host is inside a recv on connection c after the go-ahead: in the
\* collection loop (line 771) or in _send_and_expect (line 531).
HostWaitsOn(c) ==
    \/ pc = "collect" /\ workers[idx].conn = c
    \/ pc = "check_wait" /\ Node(idx).conn = c
    \/ pc = "probe_wait" /\ StepNode.conn = c

\* A registered peer that does not follow the protocol starts or goes on
\* writing a line without ending it, while the host waits for its reply.
RogueWritePart(c) ==
    /\ wpc[c] = "rogue"
    /\ chan[c] = "open"
    /\ HostWaitsOn(c)
    /\ toHost[c] = <<>>
    /\ wpc' = [wpc EXCEPT ![c] = "rogue_writing"]
    /\ UNCHANGED <<unitVars, timed_out, cluster_size, hostVars, collVars, meshVars, netVars,
                   wservers, histVars, faults>>

\* The peer pauses in the middle of its line.
RoguePause(c) ==
    /\ wpc[c] = "rogue_writing"
    /\ wpc' = [wpc EXCEPT ![c] = "rogue"]
    /\ UNCHANGED <<unitVars, timed_out, cluster_size, hostVars, collVars, meshVars, netVars,
                   wservers, histVars, faults>>

-----------------------------------------------------------------------------
(* run_host_mode: teardown (the finally clause, lines 829-840) *)

\* A teardown loop that stops at the first failed send.
MutAfterShutdown(i, sent) == IF sent THEN i + 1 ELSE Len(workers) + 1

\* Lines 830-836: the loop position after the shutdown of worker i was
\* attempted; a failure is swallowed and the loop goes on.
AfterShutdown(i, sent) == i + 1

\* Lines 831-836 for worker idx: send shutdown and recv(timeout=5) inside
\* try/except, then close the channel.  The line recv returns is dropped.
HostShutdown ==
    /\ pc = "teardown"
    /\ idx <= Len(workers)
    /\ LET c == workers[idx].conn IN
       \E sent \in HostSendOutcomes(c) :
          /\ toWorker' = [toWorker EXCEPT ![c] = AfterHostSend(c, ShutdownMsg, sent)]
          /\ HostClose(c)
          /\ timed_out' = timed_out \ {c}
          /\ shut' = Append(shut, [conn |-> c, sent |-> sent])
          /\ idx' = AfterShutdown(idx, sent)
    /\ UNCHANGED <<unitVars, cluster_size, pc, listening, workers, started, ret, collVars,
                   meshVars, peerVars, registered_log, start_log, typed, faults>>

\* Lines 837-840: close the listener; connections still in its accept
\* queue are reset.  run_host_mode then returns or re-raises.
HostFinish ==
    /\ pc = "teardown"
    /\ idx > Len(workers)
    /\ listening' = FALSE
    /\ chan' = [c \in Conns |-> IF chan[c] = "backlog" THEN "closed" ELSE chan[c]]
    /\ pc' = "done"
    /\ UNCHANGED <<unitVars, timed_out, cluster_size, workers, idx, started, ret, collVars,
                   meshVars, toHost, toWorker, peerVars, histVars, faults>>

-----------------------------------------------------------------------------
Next ==
    \/ HostStart
    \/ \E c \in Conns : HostAccept(c)
    \/ \E raw \in RawInputs : HostInput(raw)
    \/ HostInputEOF
    \/ HostSendStart
    \/ HostLocalNccl
    \/ HostCollect
    \/ HostRender
    \/ HostCheck
    \/ HostCheckReply
    \/ HostProbe
    \/ HostProbeReply
    \/ HostShutdown
    \/ HostFinish
    \/ \E c \in Conns : WorkerConnect(c)
    \/ \E c \in Conns : RogueConnect(c)
    \/ \E c \in Conns : Drop(c)
    \/ \E c \in Conns : WorkerRecvRegistered(c)
    \/ \E c \in Conns : WorkerCommand(c)
    \/ \E c \in Conns : RogueReceive(c)
    \/ \E c \in Conns : RogueSendExtra(c)
    \/ \E c \in Conns : RogueWritePart(c)
    \/ \E c \in Conns : RoguePause(c)

Spec == Init /\ [][Next]_vars

\* The steps run_host_mode takes once the operator has given the go-ahead
\* (lines 748-840).
HostStep ==
    \/ HostSendStart
    \/ HostLocalNccl
    \/ HostCollect
    \/ HostRender
    \/ HostCheck
    \/ HostCheckReply
    \/ HostProbe
    \/ HostProbeReply
    \/ HostShutdown
    \/ HostFinish

\* A peer goes on with the command it was sent.
PeerStep(c) == WorkerRecvRegistered(c) \/ WorkerCommand(c) \/ RogueReceive(c)

\* The session with its scheduling: the host is one sequential program, so
\* a step of it that can be taken is taken; a send, a local test or tool
\* run, and a recv that has a line to return or an error to raise all end.
\* A peer that is not lost takes the command in front of it; peers that
\* are late or silent are the timeouts of the adverse-event budget.
LiveSpec ==
    /\ Init /\ [][Next]_vars
    /\ WF_vars(HostStep)
    /\ \A c \in Conns : WF_vars(PeerStep(c))

-----------------------------------------------------------------------------
(* A worker in its command loop, served by an arbitrary host.               *)
(* _worker_command_loop takes whatever line arrives on the channel; the     *)
(* peer at the other end need not be run_host_mode.                         *)

\* Command lines a host may send: the commands of run_host_mode, a type the
\* loop does not know, and commands with a payload field left out.
AnyCommands ==
    {StartNcclMsg(1, 2), [type |-> "check_iperf3"], ShutdownMsg, HelloMsg,
     [type |-> "start_nccl"], [type |-> "iperf_server_start"],
     [type |-> "iperf_client_run"]}
    \cup { [type |-> t, port |-> p] :
             t \in {"iperf_server_start", "iperf_server_wait", "iperf_client_run"},
             p \in {DEFAULT_IPERF_PORT_BASE, DEFAULT_IPERF_PORT_BASE + 1} }

\* The worker on connection 1 has registered and entered the loop.
WorkerInit ==
    /\ cluster_size = 2
    /\ pc = "foreign"
    /\ listening = FALSE
    /\ workers = <<>>
    /\ idx = 0
    /\ started = FALSE
    /\ ret = "none"
    /\ local_result = NoResult
    /\ worker_results = <<>>
    /\ table = NoTable
    /\ all_ok = TRUE
    /\ mesh = MeshInit
    /\ servers = {}
    /\ mesh_entered = FALSE
    /\ chan = [c \in Conns |-> IF c = 1 THEN "open" ELSE "none"]
    /\ toHost = [c \in Conns |-> <<>>]
    /\ toWorker = [c \in Conns |-> <<>>]
    /\ wpc = [c \in Conns |-> IF c = 1 THEN "loop" ELSE "idle"]
    /\ wservers = [c \in Conns |-> {}]
    /\ registered_log = [c \in Conns |-> <<>>]
    /\ start_log = <<>>
    /\ shut = <<>>
    /\ typed = "none"
    /\ faults = 0
    /\ timed_out = {}
    /\ mgr = IperfServerManager
    /\ group = NoGroup
    /\ sock = NoSocket

\* The host writes one command line, once the last one was answered.
AnyHostSend(c) ==
    /\ pc = "foreign"
    /\ chan[c] = "open"
    /\ PeerOpen(c)
    /\ toWorker[c] = <<>>
    /\ toHost[c] = <<>>
    /\ \E m \in AnyCommands : toWorker' = [toWorker EXCEPT ![c] = <<m>>]
    /\ UNCHANGED <<unitVars, timed_out, cluster_size, hostVars, collVars, meshVars, chan, toHost,
                   peerVars, histVars, faults>>

\* The host writes a further line without waiting for the reply to the
\* last one: a shutdown or a command.
AnyHostSendNext(c) ==
    /\ pc = "foreign"
    /\ chan[c] = "open"
    /\ PeerOpen(c)
    /\ toWorker[c] # <<>>
    /\ toHost[c] = <<>>
    /\ Len(toWorker[c]) < MaxPipelined
    /\ \E m \in {ShutdownMsg, [type |-> "check_iperf3"]} :
          toWorker' = [toWorker EXCEPT ![c] = Append(@, m)]
    /\ UNCHANGED <<unitVars, timed_out, cluster_size, hostVars, collVars, meshVars, chan, toHost,
                   peerVars, histVars, faults>>

\* The host reads the reply line.
AnyHostRecv(c) ==
    /\ pc = "foreign"
    /\ chan[c] = "open"
    /\ toHost[c] # <<>>
    /\ toHost' = [toHost EXCEPT ![c] = Tail(@)]
    /\ UNCHANGED <<unitVars, timed_out, cluster_size, hostVars, collVars, meshVars, chan, toWorker,
                   peerVars, histVars, faults>>

\* The host closes the connection: a transport failure for the worker.
AnyHostClose(c) ==
    /\ pc = "foreign"
    /\ chan[c] = "open"
    /\ HostClose(c)
    /\ UNCHANGED <<unitVars, timed_out, cluster_size, hostVars, collVars, meshVars, toWorker,
                   peerVars, histVars, faults>>

WorkerNext ==
    \/ \E c \in Conns : AnyHostSend(c)
    \/ \E c \in Conns : AnyHostSendNext(c)
    \/ \E c \in Conns : AnyHostRecv(c)
    \/ \E c \in Conns : AnyHostClose(c)
    \/ \E c \in Conns : WorkerCommand(c)

WorkerSpec == WorkerInit /\ [][WorkerNext]_vars

-----------------------------------------------------------------------------
(* IperfServerManager driven on its own: any sequence of start, wait and   *)
(* shutdown_all on one manager.                                            *)

Ports == DEFAULT_IPERF_PORT_BASE..(DEFAULT_IPERF_PORT_BASE + NumPorts - 1)

\* subprocess.Popen(["iperf3", "-s", "-1", "-p", port, "-J"]): a listener
\* process; timed_out records that a wait on it ran out of time.
Popen(port) == [port |-> port, state |-> "running", timed_out |-> FALSE]

\* dict.pop(port, None): the dict without the key.
Pop(servers_, port) == [p \in (DOMAIN servers_) \ {port} |-> servers_[p]]

\* A start that replaces the handle of a port that is already tracked.
MutStart(m, port, popen_ok) ==
    IF ~popen_ok
    THEN [m EXCEPT !.ret = [op |-> "start", port |-> port, ok |-> FALSE]]
    ELSE [servers |-> [p \in (DOMAIN m.servers) \cup {port} |->
                          IF p = port THEN Len(m.procs) + 1 ELSE m.servers[p]],
          procs |-> Append(m.procs, Popen(port)),
          ret |-> [op |-> "start", port |-> port, ok |-> TRUE]]

\* start(port), lines 351-364; popen_ok: Popen returned a process.
start(m, port, popen_ok) ==
    IF port \in DOMAIN m.servers
    THEN [m EXCEPT !.ret = [op |-> "start", port |-> port, ok |-> FALSE]]
    ELSE IF ~popen_ok
    THEN [m EXCEPT !.ret = [op |-> "start", port |-> port, ok |-> FALSE]]
    ELSE [servers |-> [p \in (DOMAIN m.servers) \cup {port} |->
                          IF p = port THEN Len(m.procs) + 1 ELSE m.servers[p]],
          procs |-> Append(m.procs, Popen(port)),
          ret |-> [op |-> "start", port |-> port, ok |-> TRUE]]

\* How communicate(timeout) on a listener may end: the process exits in
\* time with code 0 or with another code, or the timeout expires.
WaitOutcomes == {"exit0", "exit1", "timeout"}

\* A timeout branch that returns without killing the process.
MutAfterTimeout(proc) == [proc EXCEPT !.timed_out = TRUE]

\* Lines 372-374: proc.kill(), then communicate() until the process is gone.
AfterTimeout(proc) == [proc EXCEPT !.state = "killed", !.timed_out = TRUE]

\* wait(port, timeout_seconds), lines 366-386.
wait(m, port, outcome) ==
    IF port \notin DOMAIN m.servers
    THEN [m EXCEPT !.ret = [op |-> "wait", port |-> port, ok |-> FALSE]]
    ELSE LET proc == m.servers[port] IN
         IF outcome = "timeout"
         THEN [servers |-> Pop(m.servers, port),
               procs |-> [m.procs EXCEPT ![proc] = AfterTimeout(@)],
               ret |-> [op |-> "wait", port |-> port, ok |-> FALSE, returncode |-> 124]]
         ELSE [servers |-> Pop(m.servers, port),
               procs |-> [m.procs EXCEPT ![proc].state = "exited"],
               ret |-> [op |-> "wait", port |-> port, ok |-> (outcome = "exit0"),
                        returncode |-> IF outcome = "exit0" THEN 0 ELSE 1]]

\* shutdown_all(), lines 388-395.  kill_raised: the tracked ports whose
\* proc.kill() raises; the exception is swallowed and the port is popped
\* all the same.
shutdown_all(m, kill_raised) ==
    [servers |-> <<>>,
     procs |-> [k \in DOMAIN m.procs |->
                  IF \E port \in (DOMAIN m.servers) \ kill_raised : m.servers[port] = k
                  THEN [m.procs[k] EXCEPT !.state = "killed"]
                  ELSE m.procs[k]],
     ret |-> [op |-> "shutdown_all"]]

\* A manager that was just created, and no session.
ManagerInit ==
    /\ cluster_size = 2
    /\ pc = "manager"
    /\ listening = FALSE
    /\ workers = <<>>
    /\ idx = 0
    /\ started = FALSE
    /\ ret = "none"
    /\ local_result = NoResult
    /\ worker_results = <<>>
    /\ table = NoTable
    /\ all_ok = TRUE
    /\ mesh = MeshInit
    /\ servers = {}
    /\ mesh_entered = FALSE
    /\ chan = [c \in Conns |-> "none"]
    /\ toHost = [c \in Conns |-> <<>>]
    /\ toWorker = [c \in Conns |-> <<>>]
    /\ wpc = [c \in Conns |-> "idle"]
    /\ wservers = [c \in Conns |-> {}]
    /\ registered_log = [c \in Conns |-> <<>>]
    /\ start_log = <<>>
    /\ shut = <<>>
    /\ typed = "none"
    /\ faults = 0
    /\ timed_out = {}
    /\ mgr = IperfServerManager
    /\ group = NoGroup
    /\ sock = NoSocket

ManagerStart(port) ==
    /\ pc = "manager"
    /\ \E popen_ok \in (IF Len(mgr.procs) < MaxProcs THEN BOOLEAN ELSE {FALSE}) :
          mgr' = start(mgr, port, popen_ok)
    /\ UNCHANGED <<sessionVars, group, sock>>

ManagerWait(port) ==
    /\ pc = "manager"
    /\ \E outcome \in WaitOutcomes : mgr' = wait(mgr, port, outcome)
    /\ UNCHANGED <<sessionVars, group, sock>>

ManagerShutdownAll ==
    /\ pc = "manager"
    /\ \E kill_raised \in SUBSET DOMAIN mgr.servers :
          mgr' = shutdown_all(mgr, kill_raised)
    /\ UNCHANGED <<sessionVars, group, sock>>

ManagerNext ==
    \/ \E port \in Ports : ManagerStart(port)
    \/ \E port \in Ports : ManagerWait(port)
    \/ ManagerShutdownAll

ManagerSpec == ManagerInit /\ [][ManagerNext]_vars

-----------------------------------------------------------------------------
(* _run_nccl_distributed, followed rank by rank: world_size processes each  *)
(* call it with their own rank.  member[rank + 1] is the call of that rank: *)
(* at is its position, initialized its local flag, pg the state of its      *)
(* process group, x the tensor after all_reduce, failed the stage at which  *)
(* something went wrong ("" if nothing did).                                *)

Ranks == 0..(group.world_size - 1)

\* An expected value that counts the ranks from 1.
MutExpectedSum(world_size) == (world_size * (world_size + 1)) \div 2

\* Line 196: float(world_size * (world_size - 1) / 2); the product of two
\* consecutive integers is even, so the float is that integer.
ExpectedSum(world_size) == (world_size * (world_size - 1)) \div 2

NoSum == [none |-> TRUE]

\* Lines 189-199: the result as first built.
FirstResult(rank, world_size) ==
    [ok |-> FALSE, rank |-> rank, world_size |-> world_size, sum |-> NoSum,
     expected_sum |-> ExpectedSum(world_size), error |-> ""]

Call(rank, world_size) ==
    [at |-> "import", initialized |-> FALSE, pg |-> "none", x |-> NoSum,
     destroy_called |-> FALSE, failed |-> "",
     result |-> FirstResult(rank, world_size)]

RECURSIVE SumOf(_)
SumOf(S) == IF S = {} THEN 0 ELSE LET v == CHOOSE v \in S : TRUE IN v + SumOf(S \ {v})

\* abs(reduced - expected_sum) < 1e-4, in units of 1e-4.
WithinTolerance(reduced, expected) ==
    LET d == 10000 * (reduced - expected) IN (IF d < 0 THEN -d ELSE d) < 1

\* except Exception as e: result["error"] = repr(e) (lines 237-238); the
\* finally clause comes next.
Caught(m, stage) ==
    [m EXCEPT !.at = "finally", !.failed = stage, !.result.error = stage]

RunnerInit ==
    /\ cluster_size = 2
    /\ pc = "runner"
    /\ listening = FALSE
    /\ workers = <<>>
    /\ idx = 0
    /\ started = FALSE
    /\ ret = "none"
    /\ local_result = NoResult
    /\ worker_results = <<>>
    /\ table = NoTable
    /\ all_ok = TRUE
    /\ mesh = MeshInit
    /\ servers = {}
    /\ mesh_entered = FALSE
    /\ chan = [c \in Conns |-> "none"]
    /\ toHost = [c \in Conns |-> <<>>]
    /\ toWorker = [c \in Conns |-> <<>>]
    /\ wpc = [c \in Conns |-> "idle"]
    /\ wservers = [c \in Conns |-> {}]
    /\ registered_log = [c \in Conns |-> <<>>]
    /\ start_log = <<>>
    /\ shut = <<>>
    /\ typed = "none"
    /\ faults = 0
    /\ timed_out = {}
    /\ mgr = IperfServerManager
    /\ sock = NoSocket
    /\ \E world_size \in 1..MaxClusterSize :
          group = [world_size |-> world_size, contributed |-> {},
                   member |-> [k \in 1..world_size |-> Call(k - 1, world_size)]]

\* Lines 201-207: import torch; on failure the result is returned at once.
RunnerImport(rank) ==
    /\ pc = "runner"
    /\ rank \in Ranks
    /\ group.member[rank + 1].at = "import"
    /\ \E ok \in BOOLEAN :
          group' = [group EXCEPT !.member[rank + 1] =
                      IF ok THEN [@ EXCEPT !.at = "join"]
                      ELSE [@ EXCEPT !.at = "returned", !.failed = "import",
                                     !.result.error = "import torch failed"]]
    /\ UNCHANGED <<sessionVars, mgr, sock>>

\* Lines 211-226: the CUDA checks and init_process_group; initialized is
\* set once init_process_group has returned.
RunnerJoin(rank) ==
    /\ pc = "runner"
    /\ rank \in Ranks
    /\ group.member[rank + 1].at = "join"
    /\ \E ok \in BOOLEAN :
          group' = [group EXCEPT !.member[rank + 1] =
                      IF ok THEN [@ EXCEPT !.at = "all_reduce", !.initialized = TRUE,
                                           !.pg = "initialized"]
                      ELSE Caught(@, "join")]
    /\ UNCHANGED <<sessionVars, mgr, sock>>

\* Lines 228-229: the rank contributes the tensor [float(rank)].
RunnerAllReduce(rank) ==
    /\ pc = "runner"
    /\ rank \in Ranks
    /\ group.member[rank + 1].at = "all_reduce"
    /\ group' = [group EXCEPT !.contributed = @ \cup {rank},
                              !.member[rank + 1].at = "item"]
    /\ UNCHANGED <<sessionVars, mgr, sock>>

\* What x.item() may give: the sum of all contributions once every rank has
\* contributed, a value the transport corrupted, or an exception (a rank
\* that never arrives, a transport error).
ItemOutcomes ==
    IF group.contributed = Ranks THEN {"sum", "corrupt", "raise"} ELSE {"raise"}

\* Line 230: reduced = float(x.item()).
RunnerItem(rank) ==
    /\ pc = "runner"
    /\ rank \in Ranks
    /\ group.member[rank + 1].at = "item"
    /\ \E outcome \in ItemOutcomes :
          group' = [group EXCEPT !.member[rank + 1] =
                      CASE outcome = "sum" ->
                              [@ EXCEPT !.at = "barrier", !.x = SumOf(group.contributed)]
                        [] outcome = "corrupt" ->
                              [@ EXCEPT !.at = "barrier", !.failed = "verification",
                                        !.x = SumOf(group.contributed) + 1]
                        [] OTHER -> Caught(@, "all_reduce")]
    /\ UNCHANGED <<sessionVars, mgr, sock>>

\* Lines 233-236: the result after the barrier returned.
Verified(m) ==
    LET ok == WithinTolerance(m.x, m.result.expected_sum)
    IN  [m EXCEPT !.at = "finally", !.result.sum = m.x, !.result.ok = ok,
                  !.result.error = IF ok THEN "" ELSE "all_reduce sum mismatch"]

\* Lines 231-236: dist.barrier(), then the verification.
RunnerBarrier(rank) ==
    /\ pc = "runner"
    /\ rank \in Ranks
    /\ group.member[rank + 1].at = "barrier"
    /\ \E ok \in BOOLEAN :
          group' = [group EXCEPT !.member[rank + 1] =
                      IF ok THEN Verified(@) ELSE Caught(@, "barrier")]
    /\ UNCHANGED <<sessionVars, mgr, sock>>

\* A cleanup whose failure replaces the result.
MutAfterCleanup(result, destroy_ok) ==
    IF destroy_ok THEN result ELSE [result EXCEPT !.ok = FALSE, !.error = "destroy failed"]

\* Lines 243-244: except Exception: pass.
AfterCleanup(result, destroy_ok) == result

\* Lines 239-247: destroy_process_group if the group was initialized, then
\* return the result.
RunnerCleanup(rank) ==
    /\ pc = "runner"
    /\ rank \in Ranks
    /\ group.member[rank + 1].at = "finally"
    /\ LET m == group.member[rank + 1] IN
       IF m.initialized /\ m.pg = "initialized"
       THEN \E destroy_ok \in BOOLEAN :
               group' = [group EXCEPT !.member[rank + 1] =
                           [m EXCEPT !.at = "returned", !.destroy_called = TRUE,
                                     !.pg = IF destroy_ok THEN "destroyed" ELSE @,
                                     !.result = AfterCleanup(m.result, destroy_ok)]]
       ELSE group' = [group EXCEPT !.member[rank + 1].at = "returned"]
    /\ UNCHANGED <<sessionVars, mgr, sock>>

RunnerNext ==
    \/ \E rank \in 0..(MaxClusterSize - 1) : RunnerImport(rank)
    \/ \E rank \in 0..(MaxClusterSize - 1) : RunnerJoin(rank)
    \/ \E rank \in 0..(MaxClusterSize - 1) : RunnerAllReduce(rank)
    \/ \E rank \in 0..(MaxClusterSize - 1) : RunnerItem(rank)
    \/ \E rank \in 0..(MaxClusterSize - 1) : RunnerBarrier(rank)
    \/ \E rank \in 0..(MaxClusterSize - 1) : RunnerCleanup(rank)

RunnerSpec == RunnerInit /\ [][RunnerNext]_vars

-----------------------------------------------------------------------------
(* JsonChannel, followed call by call on one end of a connection.  timeout  *)
(* is the socket's timeout setting, lines the complete lines the peer has   *)
(* written that were not read yet, timeout_occurred whether a read on the   *)
(* socket's file object has timed out, ret the last call and its outcome.   *)

\* The timeout a socket may have when its channel is made, in seconds:
\* None on a connection the host accepted, 30 after
\* create_connection(timeout=30).
SocketTimeouts == {"none", "30"}

\* The timeouts recv is called with: None in the worker's loop, a number
\* elsewhere.
RecvTimeouts == {"none", "60"}

ChannelInit ==
    /\ cluster_size = 2
    /\ pc = "channel"
    /\ listening = FALSE
    /\ workers = <<>>
    /\ idx = 0
    /\ started = FALSE
    /\ ret = "none"
    /\ local_result = NoResult
    /\ worker_results = <<>>
    /\ table = NoTable
    /\ all_ok = TRUE
    /\ mesh = MeshInit
    /\ servers = {}
    /\ mesh_entered = FALSE
    /\ chan = [c \in Conns |-> "none"]
    /\ toHost = [c \in Conns |-> <<>>]
    /\ toWorker = [c \in Conns |-> <<>>]
    /\ wpc = [c \in Conns |-> "idle"]
    /\ wservers = [c \in Conns |-> {}]
    /\ registered_log = [c \in Conns |-> <<>>]
    /\ start_log = <<>>
    /\ shut = <<>>
    /\ typed = "none"
    /\ faults = 0
    /\ timed_out = {}
    /\ mgr = IperfServerManager
    /\ group = NoGroup
    /\ \E t \in SocketTimeouts : sock = [NoSocket EXCEPT !.timeout = t]

\* The peer writes one line.
ChannelPeerWrite(m) ==
    /\ pc = "channel"
    /\ ~sock.peer_closed
    /\ Len(sock.lines) < MaxPipelined
    /\ sock' = [sock EXCEPT !.lines = Append(@, m)]
    /\ UNCHANGED <<sessionVars, mgr, group>>

\* The peer closes its end: the stream ends after the lines written so far.
ChannelPeerClose ==
    /\ pc = "channel"
    /\ ~sock.peer_closed
    /\ sock' = [sock EXCEPT !.peer_closed = TRUE]
    /\ UNCHANGED <<sessionVars, mgr, group>>

\* What reader.readline() does (line 302).  The file object made by
\* socket.makefile (line 291) refuses every read once a read on it has
\* timed out: it raises OSError("cannot read from timed out object")
\* without looking at the socket.  With timeout None and nothing to read
\* the call blocks.
ReadlineOutcomes(timeout) ==
    IF sock.timeout_occurred THEN {"oserror"}
    ELSE IF sock.lines # <<>> THEN {"line"}
    ELSE IF sock.peer_closed THEN {"eof"}
    ELSE IF timeout = "none" THEN {}
    ELSE {"timeout"}

\* recv(timeout), lines 298-310: what it returns or raises for each outcome
\* of readline.
RecvResult(outcome) ==
    CASE outcome = "line" -> [outcome |-> "message", message |-> Head(sock.lines)]
      [] outcome = "eof" -> [outcome |-> "EOFError"]
      [] outcome = "timeout" -> [outcome |-> "TimeoutError"]
      [] OTHER -> [outcome |-> "OSError"]

\* recv(timeout) on a channel that is not closed.  The call sets the
\* socket's timeout for the read and the finally clause puts the previous
\* one back (lines 299-306).  ret also notes what the stream held when the
\* call was made.
ChannelRecv(timeout) ==
    /\ pc = "channel"
    /\ ~sock.closed
    /\ \E outcome \in ReadlineOutcomes(timeout) :
          LET previous_timeout == sock.timeout
              during == [sock EXCEPT !.timeout = timeout]
          IN  sock' = [during EXCEPT
                         !.timeout = previous_timeout,
                         !.lines = IF outcome = "line" THEN Tail(@) ELSE @,
                         !.timeout_occurred = @ \/ outcome = "timeout",
                         !.ret = [op |-> "recv", timeout |-> timeout,
                                  had_line |-> sock.lines # <<>>,
                                  ended |-> sock.peer_closed,
                                  previous_timeout |-> previous_timeout,
                                  result |-> RecvResult(outcome)]]
    /\ UNCHANGED <<sessionVars, mgr, group>>

\* close(), lines 312-324: reader, writer and socket are closed, each
\* inside its own try/except.
ChannelClose ==
    /\ pc = "channel"
    /\ sock' = [sock EXCEPT !.closed = TRUE, !.lines = <<>>,
                            !.ret = [op |-> "close", raised |-> FALSE]]
    /\ UNCHANGED <<sessionVars, mgr, group>>

ChannelNext ==
    \/ \E m \in {HelloMsg, ShutdownAck} : ChannelPeerWrite(m)
    \/ ChannelPeerClose
    \/ \E timeout \in RecvTimeouts : ChannelRecv(timeout)
    \/ ChannelClose

ChannelSpec == ChannelInit /\ [][ChannelNext]_vars

-----------------------------------------------------------------------------
(* Every place where listeners are tracked and cleaned up: a host session   *)
(* with its workers, a worker served by an arbitrary host, and a manager    *)
(* driven on its own.                                                       *)

CleanupInit == Init \/ WorkerInit \/ ManagerInit

CleanupNext == Next \/ WorkerNext \/ ManagerNext

CleanupSpec == CleanupInit /\ [][CleanupNext]_vars

-----------------------------------------------------------------------------
(* Properties of run_host_mode *)

\* The host has returned or re-raised after the operator's go-ahead.
SessionOver == pc = "done" /\ started

\* C1: every session in which the operator gave the go-ahead ends with a
\* rendered table of exactly world_size rows, whatever happened to the
\* workers after they registered.
C1_TableHasWorldSizeRows ==
    SessionOver => (table # NoTable /\ Len(table) = cluster_size)

\* C2: the row collected from a worker carries the rank the host assigned
\* to that worker, whatever rank its nccl_result claims, so the rendered
\* table lists the ranks 0 .. world_size-1 once each in increasing order.
C2_RowsCarryAssignedRank ==
    /\ \A k \in 1..Len(worker_results) :
          worker_results[k].rank_int => worker_results[k].rank = workers[k].rank
    /\ table # NoTable => \A k \in 1..Len(table) : table[k].rank = k - 1

\* C3: after the go-ahead no failure of a single worker (a dropped
\* connection, a failed send, a missing reply) makes the host end by an
\* exception; it is turned into a failed row or a failed pair.
C3_NoAbortAfterGoAhead == started => ret # "raised"

C5_OnlySuccessfulRegistrations ==
    pc \in {"accept", "ready"} =>
        \A k \in 1..Len(workers) : chan[workers[k].conn] = "open"

\* The host takes a connection whose first message is not `register`.
RejectsFirstMessage(c) ==
    /\ pc = "accept"
    /\ chan[c] = "backlog"
    /\ chan'[c] # "backlog"
    /\ toHost[c] # <<>>
    /\ Head(toHost[c]).type # "register"

\* C6: a connection whose first message is not `register` is answered
\* with the error "first message must be register" and closed; no rank is
\* used up, the worker list is unchanged, and the host goes on accepting.
C6_WrongFirstMessageRejected ==
    [][\A c \in Conns : RejectsFirstMessage(c) =>
          /\ workers' = workers
          /\ NextRank' = NextRank
          /\ chan'[c] = "closed"
          /\ PeerOpen(c) => toWorker'[c] = Append(toWorker[c], FirstMustBeRegister)
          /\ pc' = "accept"
          /\ listening']_vars

\* C6 witness: a connection was turned away with the error message, and a
\* worker that connected after it holds rank 1.
C6_Witness ==
    /\ Len(workers) = 1
    /\ workers[1].rank = 1
    /\ \E c \in Conns :
          /\ c < workers[1].conn
          /\ chan[c] = "closed"
          /\ toWorker[c] = <<FirstMustBeRegister>>

\* A conforming worker that is still waiting for the reply to its register.
StillWaiting(c) == wpc[c] = "wait_registered"

\* C7 as stated: every worker that sent `register` gets exactly one
\* `registered` reply, also one that connects after world_size-1 others
\* have registered; so no worker is still waiting for it once the host has
\* run its session to the end.
C7_EveryRegisterAnswered ==
    (SessionOver /\ ret # "raised") =>
        \A c \in Conns : StillWaiting(c) => Len(registered_log[c]) = 1

\* C7 amended: the host answers a `register` exactly when it accepts the
\* connection, which it does only while fewer than world_size-1 workers
\* are registered.  Such a worker, if its connection is intact, gets one
\* `registered` reply with its own rank in 1 .. world_size-1 and the
\* configured world_size; nobody gets a second reply, and a worker left in
\* the accept queue when registration is over gets none.
C7_AcceptedRegisterAnswered ==
    /\ \A c \in Conns :
          /\ Len(registered_log[c]) <= 1
          /\ registered_log[c] # <<>> =>
                /\ registered_log[c][1].rank \in 1..(cluster_size - 1)
                /\ registered_log[c][1].world_size = cluster_size
                /\ \E k \in 1..Len(workers) :
                      /\ workers[k].conn = c
                      /\ workers[k].rank = registered_log[c][1].rank
          /\ chan[c] = "backlog" /\ pc # "accept" => registered_log[c] = <<>>
    /\ \A k \in 1..Len(workers) :
          PeerOpen(workers[k].conn) => Len(registered_log[workers[k].conn]) = 1

\* C7 witness: the host is past registration, one worker holds its reply,
\* and a worker that connected later waits without one.
C7_Witness ==
    /\ pc = "ready"
    /\ \E c \in Conns : registered_log[c] # <<>> /\ wpc[c] = "loop"
    /\ \E c \in Conns :
          chan[c] = "backlog" /\ StillWaiting(c) /\ registered_log[c] = <<>>

\* No start_nccl is in flight to any worker.
NoStartSent ==
    \A c \in Conns : \A k \in 1..Len(toWorker[c]) : toWorker[c][k].type # "start_nccl"

\* C8: nothing of the collective phase happens before world_size-1 workers
\* are registered and the operator has typed start, s or an empty line;
\* any other input leaves the host waiting with nothing sent.
C8_GoAheadGatesCollective ==
    /\ started => typed = "go" /\ Len(workers) = cluster_size - 1
    /\ ~started =>
          /\ NoStartSent
          /\ local_result = NoResult
          /\ worker_results = <<>>
          /\ pc \in {"init", "exit", "accept", "ready", "teardown", "done"}

\* C8 witness: all workers are registered and the operator has typed
\* something else; the host still waits.
C8_Witness ==
    /\ pc = "ready"
    /\ typed = "other"
    /\ Len(workers) = cluster_size - 1
    /\ cluster_size = 3

\* C9: once the collective phase is entered its results do not gate the
\* mesh phase: the host always goes on to the mesh bandwidth tests.
C9_MeshAlwaysEntered == SessionOver => mesh_entered

PairedReply(type) ==
    CASE type = "start_nccl" -> "nccl_result"
      [] type = "check_iperf3" -> "check_iperf3_result"
      [] type = "iperf_server_start" -> "iperf_server_start_result"
      [] type = "iperf_server_wait" -> "iperf_server_wait_result"
      [] type = "iperf_client_run" -> "iperf_client_result"
      [] type = "shutdown" -> "shutdown_ack"
      [] OTHER -> "error"

\* The worker on c takes the command at the head of its queue in this step,
\* with the host end of its connection intact.
TakesCommand(c) ==
    /\ wpc[c] = "loop"
    /\ chan[c] = "open"
    /\ toWorker[c] # <<>>
    /\ wpc'[c] # wpc[c] \/ toWorker'[c] = Tail(toWorker[c])

\* C11: whatever command a worker takes in its loop, of any type and with
\* any payload, it sends exactly one reply for it, of the type paired with
\* the command's type (`error` for a type it does not know).
C11_OneTypedReplyPerCommand ==
    [][\A c \in Conns : TakesCommand(c) =>
          /\ Len(toHost'[c]) = Len(toHost[c]) + 1
          /\ toHost'[c][Len(toHost'[c])].type = PairedReply(Head(toWorker[c]).type)]_vars

\* C12: the command loop ends only on a transport failure or on shutdown:
\* after any other command, whatever its type or payload and whether the
\* test or probe it asks for failed, the worker is still in the loop.
C12_LoopEndsOnlyOnShutdown ==
    [][\A c \in Conns :
          TakesCommand(c) /\ Head(toWorker[c]).type # "shutdown" => wpc'[c] = "loop"]_vars

\* The commands the host has sent to c that c has not answered yet.
Outstanding(c) ==
    {k \in 1..Len(toWorker[c]) : toWorker[c][k].type \notin {"registered", "error"}}

\* C13: the exchange on a worker connection is one-at-a-time in every
\* phase: the host never sends a command to a worker that still has an
\* earlier command unanswered.
C13_OneCommandOutstanding == \A c \in Conns : Cardinality(Outstanding(c)) <= 1

\* No command of the mesh tests is in flight to any worker.
NoProbeCommandSent ==
    \A c \in Conns : \A k \in 1..Len(toWorker[c]) :
        toWorker[c][k].type \notin {"iperf_server_start", "iperf_client_run", "iperf_server_wait"}

\* C14: the preflight asks every node for the bandwidth tool; if a node
\* reports it missing the mesh tests are skipped as a whole (no listener
\* start, no client run, no listener wait on any node), and the collective
\* table rendered before still has world_size rows.
C14_MissingToolSkipsMesh ==
    (mesh_entered /\ ~all_ok) =>
        /\ pc \in {"check", "check_wait", "teardown", "done"}
        /\ mesh.probes = <<>> /\ mesh.pairs = <<>> /\ mesh.step = "start"
        /\ servers = {}
        /\ \A c \in Conns : wservers[c] = {}
        /\ NoProbeCommandSent
        /\ table # NoTable /\ Len(table) = cluster_size
        /\ (pc \in {"teardown", "done"} /\ ret # "raised") =>
              Len(mesh.availability_rows) = cluster_size

\* C14 witness: of three nodes the second lacks the tool; the third was
\* still asked, and the session ended without a mesh test.
C14_Witness ==
    /\ pc = "done"
    /\ cluster_size = 3
    /\ mesh.availability_rows = <<TRUE, FALSE, TRUE>>
    /\ ret = "rc0"

\* All unordered pairs of node positions, for a mesh of n nodes.
AllPairs(n) == {p \in (0..(n - 1)) \X (0..(n - 1)) : p[1] < p[2]}

\* C15: the mesh phase tests every unordered pair of nodes exactly once,
\* each pair by two directed probes (A to B, then B to A) that both end
\* before the next pair starts, and no two directed probes of the session
\* use the same port.
C15_EveryPairOnceTwoProbes ==
    LET pairs == mesh.pairs
        probes == mesh.probes
    IN  /\ \A a, b \in 1..Len(probes) : a # b => probes[a].port # probes[b].port
        /\ \A a, b \in 1..Len(pairs) : a # b => pairs[a] # pairs[b]
        /\ Len(probes) \in {2 * Len(pairs), 2 * Len(pairs) + 1}
        /\ \A k \in 1..Len(pairs) :
              /\ pairs[k] \in AllPairs(cluster_size)
              /\ probes[2 * k - 1].client = Node(pairs[k][1]).rank
              /\ probes[2 * k - 1].server = Node(pairs[k][2]).rank
              /\ probes[2 * k].client = Node(pairs[k][2]).rank
              /\ probes[2 * k].server = Node(pairs[k][1]).rank
        /\ mesh.step = "done" =>
              /\ {pairs[k] : k \in 1..Len(pairs)} = AllPairs(cluster_size)
              /\ 2 * Len(pairs) = cluster_size * (cluster_size - 1)
              /\ Len(probes) = 2 * Len(pairs)

\* C15 witness: a mesh of three nodes ran to its end.
C15_Witness ==
    /\ cluster_size = 3
    /\ mesh.step = "done"
    /\ Len(mesh.pairs) = 3
    /\ Len(mesh.probes) = 6

\* The command type of each step of a directed probe.
StepType(step) ==
    CASE step = "start" -> "iperf_server_start"
      [] step = "client" -> "iperf_client_run"
      [] OTHER -> "iperf_server_wait"

\* A step of the pair loops was taken (not one of the preflight).
ProbeStepTaken ==
    /\ mesh' # mesh
    /\ mesh'.availability_rows = mesh.availability_rows

\* The listener start that returns in this step succeeded: on the host a
\* new listener is tracked, on a worker the reply read in this step says ok.
StartSucceeded ==
    IF pc = "probe"
    THEN ProbePort \in servers' /\ ProbePort \notin servers
    ELSE MsgOk(Head(toHost[StepNode.conn]))

\* The direction in progress ended in this step because its listener did
\* not start: it is recorded as failed, and the loops go on with the
\* reverse direction, the next pair, or the end of the last pair.
StartFailureRecorded ==
    /\ Len(mesh'.probes) = Len(mesh.probes) + 1
    /\ IF mesh.dirn = 1
       THEN /\ mesh'.dirn = 2 /\ mesh'.step = "start"
            /\ mesh'.i = mesh.i /\ mesh'.j = mesh.j
            /\ ~mesh'.a_to_b.ok
            /\ mesh'.a_to_b.error = "server start failed"
       ELSE /\ mesh'.dirn = 1 /\ mesh'.step \in {"start", "done"}
            /\ mesh'.pairs = Append(mesh.pairs, <<mesh.i, mesh.j>>)
            /\ mesh'.step = "done" <=> 2 * Len(mesh'.pairs) = cluster_size * (cluster_size - 1)
            /\ mesh'.last_row.status = "FAIL"
            /\ mesh'.last_row.detail[2] = "server start failed"

\* C16: a directed probe runs listener start, client run, listener wait in
\* this order.  A failed listener start ends the direction as failed with
\* neither client run nor wait, and the reverse direction and the later
\* pairs still run; after a listener start that succeeded the wait is
\* issued whether the client run succeeded or not.
C16_ProbeStepsInOrder ==
    [][/\ ProbeStepTaken =>
             CASE mesh.step = "start" ->
                    IF StartSucceeded
                    THEN /\ mesh'.step = "client"
                         /\ mesh'.dirn = mesh.dirn
                         /\ mesh'.probes = mesh.probes
                    ELSE StartFailureRecorded
               [] mesh.step = "client" ->
                    /\ mesh'.step = "wait"
                    /\ mesh'.dirn = mesh.dirn
                    /\ mesh'.probes = mesh.probes
               [] mesh.step = "wait" ->
                    /\ Len(mesh'.probes) = Len(mesh.probes) + 1
                    /\ mesh'.step \in {"start", "done"}
               [] OTHER -> FALSE
       /\ (pc = "probe" /\ pc' = "probe_wait") =>
             LET c == StepNode.conn IN
             PeerOpen(c) =>
                /\ Len(toWorker'[c]) = Len(toWorker[c]) + 1
                /\ toWorker'[c][Len(toWorker'[c])].type = StepType(mesh.step)
                /\ toWorker'[c][Len(toWorker'[c])].port = ProbePort]_vars

\* C16 witness: the listener of the first direction did not start, the
\* reverse direction ran, its client failed, and its wait was issued.
C16_Witness ==
    /\ pc = "probe_wait"
    /\ mesh.dirn = 2
    /\ mesh.step = "wait"
    /\ ~mesh.client_res.ok
    /\ mesh.a_to_b.error = "server start failed"

\* A directed probe has just ended with its listener wait, and was
\* recorded as passing: the first direction of a pair in a_to_b, the
\* second in the pair's row.
DirectionJustPassed ==
    /\ mesh.server_res # NoResult
    /\ IF mesh.dirn = 2 THEN mesh.a_to_b.ok ELSE mesh.last_row.detail[2] = ""

\* C17: a directed probe is recorded as passing only if the client ran
\* successfully and the sink's (listener's) report yielded a numeric
\* throughput; a pair is PASS only if both of its directions pass.
C17_PassNeedsSinkThroughput ==
    /\ DirectionJustPassed => mesh.server_res.ok /\ mesh.server_res.stdout.num
    /\ mesh.last_row # NoResult =>
          (mesh.last_row.status = "PASS" => mesh.last_row.detail = <<"", "">>)

\* The row of the pair that ended last.
PairEnded == mesh.last_row # NoResult

\* C18: for a pair whose two directions both succeeded, whatever
\* throughput they report (0 bits per second included), both directions'
\* Gbps figures are shown and Avg Gbps is their arithmetic mean.
C18_AvgIsMeanOfBoth ==
    (PairEnded /\ mesh.last_row.status = "PASS") =>
        /\ mesh.last_row.a_to_b_gbps.num
        /\ mesh.last_row.b_to_a_gbps.num
        /\ mesh.last_row.avg_gbps.num
        /\ 2 * mesh.last_row.avg_gbps.v =
              mesh.last_row.a_to_b_gbps.v + mesh.last_row.b_to_a_gbps.v

\* The direction shown in column k of the pair's row failed.
DirectionFailed(k) == mesh.last_row.detail[k] # ""

\* C19: for a pair with a failed direction the status is FAIL, the detail
\* names each failed direction with its error, the failed direction's
\* column shows N/A and a direction that passed still shows its throughput.
C19_FailedPairKeepsPassingFigure ==
    (PairEnded /\ (DirectionFailed(1) \/ DirectionFailed(2))) =>
        /\ mesh.last_row.status = "FAIL"
        /\ mesh.last_row.a_to_b_gbps.num <=> ~DirectionFailed(1)
        /\ mesh.last_row.b_to_a_gbps.num <=> ~DirectionFailed(2)

\* Every one of the world_size collective results is ok.
AllCollectiveOk ==
    /\ table # NoTable
    /\ Len(table) = cluster_size
    /\ \A k \in 1..Len(table) : table[k].ok

\* C20: a session that passed setup exits with status 0 exactly when all
\* world_size collective results are ok, whatever happens in the mesh
\* phase (tool missing, a failed probe, a worker lost during a probe).
C20_ExitStatusIsCollectiveVerdict ==
    SessionOver => (ret = "rc0" <=> AllCollectiveOk)


\* C21: when fewer than 2 nodes are requested or the control listener
\* cannot be bound, the host session ends with a non-zero status before any
\* node-level work: no connection is accepted, no message is sent, no
\* collective test and no probe is run.
C21_SetupFailureBeforeAnyWork ==
    /\ cluster_size < 2 => pc \in {"init", "exit"}
    /\ pc = "exit" =>
          /\ ret = "rc1"
          /\ ~listening /\ ~started /\ ~mesh_entered
          /\ workers = <<>>
          /\ \A c \in Conns :
                chan[c] = "none" /\ toWorker[c] = <<>> /\ registered_log[c] = <<>>
          /\ shut = <<>>
          /\ local_result = NoResult /\ worker_results = <<>> /\ table = NoTable
          /\ mesh = MeshInit /\ servers = {}
    /\ ~listening /\ pc # "done" => pc \in {"init", "exit"}

\* C21 witness: three nodes were requested and the bind failed.
C21_Witness == pc = "exit" /\ cluster_size = 3

-----------------------------------------------------------------------------
(* Properties of IperfServerManager *)

\* The listener processes a manager tracks, as a set of handles.
Tracked(m) == {m.servers[port] : port \in DOMAIN m.servers}

\* C22: in a listener manager, after any sequence of start, wait and
\* shutdown_all, each port maps to at most one tracked listener.  start on
\* a tracked port fails, starts no process and leaves the port's handle as
\* it was; wait on an untracked port fails and leaves the map as it was;
\* wait on a tracked port removes it, so that the port can be started again.
C22_OneListenerPerPort ==
    /\ [](/\ DOMAIN mgr.servers \subseteq Ports
          /\ \A port \in DOMAIN mgr.servers :
                /\ mgr.servers[port] \in 1..Len(mgr.procs)
                /\ mgr.procs[mgr.servers[port]].port = port
          /\ \A port \in Ports :
                Cardinality({k \in Tracked(mgr) : mgr.procs[k].port = port}) <= 1)
    /\ [][LET call == mgr'.ret
              tracked == call.port \in DOMAIN mgr.servers
          IN  /\ (call.op = "start" /\ tracked) =>
                    ~call.ok /\ mgr'.procs = mgr.procs /\ mgr'.servers = mgr.servers
              /\ (call.op = "start" /\ ~tracked /\ call.ok) =>
                    /\ Len(mgr'.procs) = Len(mgr.procs) + 1
                    /\ DOMAIN mgr'.servers = DOMAIN mgr.servers \cup {call.port}
                    /\ mgr'.servers[call.port] = Len(mgr'.procs)
                    /\ \A port \in DOMAIN mgr.servers : mgr'.servers[port] = mgr.servers[port]
              /\ (call.op = "wait" /\ ~tracked) =>
                    ~call.ok /\ mgr'.servers = mgr.servers /\ mgr'.procs = mgr.procs
              /\ (call.op = "wait" /\ tracked) =>
                    /\ DOMAIN mgr'.servers = DOMAIN mgr.servers \ {call.port}
                    /\ \A port \in DOMAIN mgr'.servers : mgr'.servers[port] = mgr.servers[port]
                    /\ Len(mgr'.procs) = Len(mgr.procs)]_vars

\* C22 witness: a start on the port of a tracked listener has just failed;
\* the port is tracked for the second time, after a wait removed its first
\* listener, and the other port is tracked too.
C22_Witness ==
    /\ mgr.ret = [op |-> "start", port |-> DEFAULT_IPERF_PORT_BASE, ok |-> FALSE]
    /\ DOMAIN mgr.servers = Ports
    /\ mgr.servers[DEFAULT_IPERF_PORT_BASE] = 3
    /\ mgr.procs[1].port = DEFAULT_IPERF_PORT_BASE
    /\ mgr.procs[1].state = "exited"

\* The last call was a wait that ran out of time.
WaitTimedOut ==
    /\ mgr.ret.op = "wait"
    /\ "returncode" \in DOMAIN mgr.ret
    /\ mgr.ret.returncode = 124

\* C27: when a listener wait exceeds its timeout the listener process is
\* killed and drained, the wait returns ok=false and the port is no longer
\* tracked; no listener process that timed out remains running or tracked.
C27_TimedOutListenerIsKilled ==
    /\ WaitTimedOut => ~mgr.ret.ok /\ mgr.ret.port \notin DOMAIN mgr.servers
    /\ \A k \in DOMAIN mgr.procs :
          mgr.procs[k].timed_out =>
              mgr.procs[k].state = "killed" /\ k \notin Tracked(mgr)
    /\ \A k \in Tracked(mgr) : mgr.procs[k].state = "running"

\* C27 witness: a wait has just timed out while the other port's listener
\* is still tracked.
C27_Witness ==
    /\ WaitTimedOut
    /\ mgr.ret.port = DEFAULT_IPERF_PORT_BASE
    /\ mgr.procs[1].timed_out
    /\ DOMAIN mgr.servers = {DEFAULT_IPERF_PORT_BASE + 1}

-----------------------------------------------------------------------------
(* Properties of _run_nccl_distributed *)

\* The call of this rank is past its try block and nothing went wrong in it.
RanCleanly(rank) ==
    /\ group.member[rank + 1].at \in {"finally", "returned"}
    /\ group.member[rank + 1].failed = ""

\* C23: for every world_size >= 1, when every participant 0..world_size-1
\* joins and contributes its own rank, every participant's result has sum
\* and expected_sum equal to world_size*(world_size-1)/2 and ok=true; for
\* world_size = 1 that is sum=0, expected_sum=0, ok=true.
C23_SumIsClosedForm ==
    \A rank \in Ranks :
        RanCleanly(rank) =>
            LET result == group.member[rank + 1].result IN
            /\ group.contributed = Ranks
            /\ result.ok
            /\ 2 * result.sum = group.world_size * (group.world_size - 1)
            /\ result.expected_sum = result.sum
            /\ result.error = ""
            /\ group.world_size = 1 => result.sum = 0 /\ result.expected_sum = 0

\* C23 witness: three participants have all returned without a failure.
C23_Witness ==
    /\ group.world_size = 3
    /\ \A rank \in Ranks :
          RanCleanly(rank) /\ group.member[rank + 1].at = "returned"
    /\ group.member[1].result.sum = 3

\* The positions of a call; none of them is "left by an exception".
RunnerPositions == {"import", "join", "all_reduce", "item", "barrier", "finally", "returned"}

\* C24: the collective test runner never propagates a failure: a failure
\* at import, join, all-reduce, barrier or verification gives a result with
\* ok=false and a non-empty error.  The communication group is destroyed
\* exactly when it had been initialized, and a failure of that cleanup
\* leaves the result's ok, sum and error as they were before it.
C24_RunnerCatchesEveryFailure ==
    /\ [](\A rank \in Ranks :
            LET m == group.member[rank + 1] IN
            /\ m.at \in RunnerPositions
            /\ (m.at = "returned" /\ m.failed # "") =>
                  ~m.result.ok /\ m.result.error # ""
            /\ m.at = "returned" => (m.destroy_called <=> m.initialized)
            /\ m.at # "returned" => ~m.destroy_called
            /\ m.pg = "destroyed" => m.destroy_called)
    /\ [][\A rank \in Ranks :
            LET m == group.member[rank + 1]
                n == group'.member[rank + 1]
            IN  (m.at = "finally" /\ n.at = "returned") =>
                    /\ n.result.ok = m.result.ok
                    /\ n.result.sum = m.result.sum
                    /\ n.result.error = m.result.error]_vars

\* C24 witness: rank 1 failed to join and had no group to destroy; the
\* all-reduce of rank 0 failed for that, the destroy of its group failed
\* too, and its result still names the all-reduce.
C24_Witness ==
    /\ group.world_size = 2
    /\ group.member[1].at = "returned"
    /\ group.member[1].failed = "all_reduce"
    /\ group.member[1].result.error = "all_reduce"
    /\ group.member[1].destroy_called
    /\ group.member[1].pg = "initialized"
    /\ group.member[2].at = "returned"
    /\ group.member[2].failed = "join"
    /\ ~group.member[2].destroy_called

-----------------------------------------------------------------------------
(* Properties of the worker's shutdown and of cleanup *)

\* The worker on c sends a shutdown_ack in this step.
SendsAck(c) == toHost'[c] = Append(toHost[c], ShutdownAck)

\* C25: a worker sends at most one shutdown_ack in a session: on shutdown
\* it stops its tracked listeners, sends the acknowledgement and leaves the
\* command loop; it handles no command after that, so a second shutdown or
\* any later message gets no reply and the worker does not wait for one.
C25_OneShutdownAck ==
    [][\A c \in Conns :
          /\ SendsAck(c) =>
                /\ wpc[c] = "loop"
                /\ Head(toWorker[c]).type = "shutdown"
          /\ (TakesCommand(c) /\ Head(toWorker[c]).type = "shutdown") =>
                /\ SendsAck(c)
                /\ wservers'[c] = {}
                /\ wpc'[c] = "exited"
                /\ toWorker'[c] = <<>>
          /\ wpc[c] = "exited" =>
                /\ wpc'[c] = "exited"
                /\ toWorker'[c] = <<>>
                /\ wservers'[c] = {}
                /\ Len(toHost'[c]) <= Len(toHost[c])]_vars

\* C25 witness: the worker has answered a listener start and then a
\* shutdown, and has left the loop.
C25_Witness ==
    /\ wpc[1] = "exited"
    /\ chan[1] = "open"
    /\ toHost[1] = <<[type |-> "iperf_server_start_result", ok |-> TRUE], ShutdownAck>>

\* C26: when a worker's command loop ends by any path (shutdown, transport
\* failure, an error raised by a handler) and when the host's mesh phase
\* ends by any path, the listener map of that node is empty; a failure
\* while terminating one listener neither raises nor keeps the others
\* tracked.
C26_NoListenerTrackedAfterEnd ==
    /\ \A c \in Conns : wpc[c] \notin {"wait_registered", "loop"} => wservers[c] = {}
    /\ pc \in {"teardown", "done", "exit"} => servers = {}
    /\ mgr.ret = [op |-> "shutdown_all"] => mgr.servers = <<>>

\* C26 witness: the mesh phase ended by an exception while the host's own
\* listener was waiting for the client of a worker that was lost; the
\* worker was tracking nothing of its own.
C26_Witness ==
    /\ pc = "teardown"
    /\ ret = "raised"
    /\ mesh.step = "client"
    /\ ProbeServer.is_host
    /\ wpc[ProbeClient.conn] = "exited"

-----------------------------------------------------------------------------
(* Properties of JsonChannel *)

\* The last call was a recv, and this is what it returned or raised.
RecvEnded(outcome) == sock.ret.op = "recv" /\ sock.ret.result.outcome = outcome

\* C28: on a control channel recv returns the next complete line as a
\* message when one arrives in time, fails with a timeout error when no
\* line arrives within the timeout, and fails with a peer-closed error when
\* the stream ends without a line; in each case the socket's timeout
\* setting is the same after recv as before it.  close may be called any
\* number of times without raising.
C28_RecvHasThreeOutcomes ==
    /\ sock.ret.op = "recv" =>
          /\ sock.ret.had_line => RecvEnded("message")
          /\ (~sock.ret.had_line /\ sock.ret.ended) => RecvEnded("EOFError")
          /\ (~sock.ret.had_line /\ ~sock.ret.ended) => RecvEnded("TimeoutError")
          /\ sock.closed \/ sock.timeout = sock.ret.previous_timeout
    /\ sock.ret.op = "close" => ~sock.ret.raised

-----------------------------------------------------------------------------
(* Properties of the collective phase *)

\* The host is between the operator's go-ahead and the call of
\* _run_mesh_iperf_tests, and no exception has left the try block.
InCollectivePhase == started /\ ret = "none" /\ ~mesh_entered

\* This step sends a start_nccl command.
SendsStart == start_log' # start_log

\* This step is the host's own rank-0 test, from call to return.
RunsLocalTest == local_result = NoResult /\ local_result' # NoResult

\* This step is the host taking a line that connection c delivered.
HostTakesLine(c) ==
    /\ toHost[c] # <<>>
    /\ toHost'[c] = Tail(toHost[c])
    /\ chan'[c] = chan[c]

\* This step finishes with the next worker of the collection loop.
FinishesWorker == worker_results' # worker_results

\* The connections of the registered workers, in registration order.
WorkerConns == [k \in 1..Len(workers) |-> workers[k].conn]

\* The connections that were sent start_nccl, in the order of the sends.
StartedConns == [k \in 1..Len(start_log) |-> start_log[k].conn]

\* C29: in the collective phase start_nccl is sent to every worker, in
\* registration order, before the host starts its own rank-0 test; the
\* host reads no worker reply until its own test has returned; it then
\* reads one reply per worker in registration order, finishing (reply,
\* wrong-type reply, timeout or error) with worker k before reading from
\* worker k+1.
C29_CollectivePhaseIsOrdered ==
    [][/\ SendsStart =>
             /\ local_result = NoResult /\ worker_results = <<>>
             /\ Len(start_log') = Len(start_log) + 1
             /\ Len(start_log') <= Len(workers)
             /\ StartedConns' = SubSeq(WorkerConns, 1, Len(start_log'))
       /\ RunsLocalTest =>
             /\ StartedConns = WorkerConns
             /\ worker_results = <<>>
             /\ \A c \in Conns : ~HostTakesLine(c)
       /\ InCollectivePhase /\ local_result' = NoResult =>
             /\ \A c \in Conns : ~HostTakesLine(c)
             /\ ~FinishesWorker
       /\ InCollectivePhase /\ local_result # NoResult =>
             LET k == Len(worker_results) + 1 IN
             /\ \A c \in Conns : HostTakesLine(c) =>
                   /\ k <= Len(workers) /\ c = workers[k].conn
                   /\ worker_results' =
                         Append(worker_results, CollectedRow(workers[k], Head(toHost[c])))
             /\ FinishesWorker =>
                   /\ k <= Len(workers)
                   /\ Len(worker_results') = k
                   /\ SubSeq(worker_results', 1, k - 1) = worker_results
                   /\ \/ HostTakesLine(workers[k].conn)
                      \/ /\ worker_results'[k] = Synthetic(workers[k], "recv failed")
                         /\ toHost' = toHost
      ]_vars

\* C29 witness: with two workers, both were sent start_nccl in registration
\* order, the host's own test returned, the first worker's reply was read
\* and the second worker's reply is waiting to be read.
C29_Witness ==
    /\ Len(workers) = 2
    /\ StartedConns = WorkerConns
    /\ local_result # NoResult
    /\ Len(worker_results) = 1
    /\ worker_results[1] # Synthetic(workers[1], "recv failed")
    /\ toHost[workers[2].conn] # <<>>
    /\ InCollectivePhase

\* C30: the world size is the same in every message of a session: every
\* `registered` reply and every start_nccl command carries world_size equal
\* to the configured cluster size, and the rank in the start_nccl sent to a
\* worker equals the rank that worker received in its `registered` reply.
C30_WorldSizeAndRankAgree ==
    /\ \A c \in Conns : \A k \in 1..Len(registered_log[c]) :
          registered_log[c][k].world_size = cluster_size
    /\ \A c \in Conns : \A k \in 1..Len(toWorker[c]) :
          toWorker[c][k].type \in {"registered", "start_nccl"} =>
             toWorker[c][k].world_size = cluster_size
    /\ \A k \in 1..Len(start_log) :
          LET sent == start_log[k] IN
          /\ sent.command.type = "start_nccl"
          /\ sent.command.world_size = cluster_size
          /\ \A j \in 1..Len(registered_log[sent.conn]) :
                sent.command.rank = registered_log[sent.conn][j].rank

\* C30 witness: in a session of three nodes the second worker holds its
\* `registered` reply and has been sent its start_nccl command.
C30_Witness ==
    /\ cluster_size = 3
    /\ Len(start_log) = 2
    /\ registered_log[start_log[2].conn] # <<>>
    /\ registered_log[start_log[2].conn][1].rank = 2
    /\ start_log[2].command = StartNcclMsg(2, 3)

-----------------------------------------------------------------------------
(* Properties of the mesh phase and of termination *)

\* _run_mesh_iperf_tests is running: it was called and no exception has
\* left it.
InMeshPhase == mesh_entered /\ ret = "none"

\* The line at the head of c's queue answers the command the host sent
\* last: the peer has taken every command sent to it, and has written
\* nothing else that the host has not read.
HeadAnswersLastCommand(c) == Outstanding(c) = {} /\ Len(toHost[c]) = 1

\* C31: every reply the host uses as the answer to a command it sent to a
\* worker in the mesh phase was produced by that worker in response to that
\* same command; a reply to an earlier command that arrived late is never
\* taken as the answer to a later command.
C31_RepliesAnswerTheirCommand ==
    [][\A c \in Conns :
          InMeshPhase /\ HostTakesLine(c) => HeadAnswersLastCommand(c)]_vars

\* A directed probe (_run_iperf_direction) is about to start: the host is
\* at its first step and has sent nothing for it yet.
ProbeStarts == pc = "probe" /\ mesh.step = "start"

\* No node tracks a listener.
NoListenerTracked == servers = {} /\ \A c \in Conns : wservers[c] = {}

\* This step is the return of a directed probe.
ProbeReturns == Len(mesh'.probes) = Len(mesh.probes) + 1

\* C32: at the start of every directed probe in the mesh phase no node
\* (host or worker) tracks any listener: each listener that a probe started
\* successfully was waited on and removed from its node's map before that
\* probe returned, whether the client run succeeded or failed.
C32_NoListenerAcrossProbes ==
    [][/\ ProbeStarts => NoListenerTracked
       /\ ProbeReturns => NoListenerTracked'
      ]_vars

\* C32 witness: the second directed probe of a pair is about to start
\* after the first one started its listener on a worker and its client
\* run, on the host, failed.
C32_Witness ==
    /\ ProbeStarts
    /\ mesh.dirn = 2
    /\ mesh.a_to_b = DirFail("client failed")
    /\ ~Node(mesh.j).is_host
    /\ wpc[Node(mesh.j).conn] = "loop"

\* C33: once the operator has given the go-ahead the host session always
\* terminates: whatever the workers do afterwards, every host wait is
\* bounded by a timeout, so the host eventually performs teardown and ends.
C33_HostTerminatesAfterGoAhead == started ~> pc = "done"

=============================================================================
